---- MODULE Spec2Model ----
(***************************************************************************)
(* A model of persist-cache: the codec of serialization.py, the argument   *)
(* canonicalisation of helpers.py, the entry store of caching.py and the   *)
(* wrappers of persist_cache.py, one caller at a time and with concurrent  *)
(* callers that interleave at the steps of get, set, flush and clear.      *)
(*                                                                         *)
(* Python values are records with one field, the field naming the type:    *)
(*   [str |-> <<code points>>]   [int |-> <<e, d>>] (the integer e*2^63+d) *)
(*   [bool |-> b]  [none |-> 0]  [float |-> id]  [obj |-> id]              *)
(*   [list |-> seq]  [tuple |-> seq]  [dict |-> seq of <<key, value>>]     *)
(*   [set |-> S]  [frozenset |-> S]  [bytes |-> seq]  [bytearray |-> seq]  *)
(*   [pstr |-> v]  the str PICKLE_SIGNATURE + pickle.dumps(v) as latin1    *)
(*   [lambda |-> id]  an object that cannot be pickled                     *)
(*   [error |-> name]  an exception raised instead of a value              *)
(***************************************************************************)
EXTENDS Integers, Sequences, FiniteSets, TLC

VARIABLES
    codec,      \* the codec on its own: a value, its bytes, the value read back
    binding,    \* canonicalisation on its own: a callable and two calls of it
    shape,      \* the kind of the cached function: sync, async or generator
    now,        \* the clock, in seconds
    fs,         \* the cache directory: whether it exists, and its entries
    handles,    \* the expiry of each constructed wrapper
    pending,    \* the call that is suspended: a coroutine or a generator object
    calls,      \* how many times the cached function has been invoked
    last,       \* the operation that has just ended and what it gave its caller
    threads,    \* where each concurrent caller is in the operation it runs
    locks,      \* the .lock files of the directory and who holds the lock of each
    puts,       \* what set was given last, has finished writing, and raised on
    disk        \* the cache directories of several names, by their path

shared == <<threads, locks, puts>>
vars ==
    <<codec, binding, shape, now, fs, handles, pending, calls, last, threads, locks, puts, disk>>
engine == <<shape, now, fs, handles, pending, calls, last, shared, disk>>

----------------------------------------------------------------------------
(* serialization.py: signatures *)

FS == 28
RS == 30
SIGNATURE_SEPARATOR == <<FS, RS>>
TULIP == 127799
BASKET == 129530
ICE == 129482
CUCUMBER == 129362
KEYCAP_TEN == 128287
INPUT_NUMBERS == 128290

TUPLE_SIGNATURE == <<TULIP>> \o SIGNATURE_SEPARATOR
SET_SIGNATURE == <<BASKET>> \o SIGNATURE_SEPARATOR
FROZENSET_SIGNATURE == <<ICE, BASKET>> \o SIGNATURE_SEPARATOR
LISTED_SIGNATURES == {TUPLE_SIGNATURE, SET_SIGNATURE, FROZENSET_SIGNATURE}
PICKLE_SIGNATURE == <<CUCUMBER>> \o SIGNATURE_SEPARATOR
BYTES_SIGNATURE == <<KEYCAP_TEN>> \o SIGNATURE_SEPARATOR
BYTEARRAY_SIGNATURE == <<INPUT_NUMBERS>> \o SIGNATURE_SEPARATOR
PICKLE_SIGNATURE_LEN == Len(PICKLE_SIGNATURE)
BYTES_SIGNATURE_LEN == Len(BYTES_SIGNATURE)
BYTEARRAY_SIGNATURE_LEN == Len(BYTEARRAY_SIGNATURE)
STR_SIGNATURES == {PICKLE_SIGNATURE, BYTES_SIGNATURE, BYTEARRAY_SIGNATURE}

----------------------------------------------------------------------------
(* Python values *)

Str(s) == [str |-> s]
PyInt(n) == [int |-> <<0, n>>]
BigInt(e, d) == [int |-> <<e, d>>]
Bool(b) == [bool |-> b]
None == [none |-> 0]
Float(x) == [float |-> x]
Obj(x) == [obj |-> x]
List(s) == [list |-> s]
Tuple(s) == [tuple |-> s]
Dict(s) == [dict |-> s]
PySet(S) == [set |-> S]
FrozenSet(S) == [frozenset |-> S]
Bytes(s) == [bytes |-> s]
ByteArray(s) == [bytearray |-> s]
Error(name) == [error |-> name]

Is(d, type) == type \in DOMAIN d
IsStr(d) == Is(d, "str") \/ Is(d, "pstr")
IsError(d) == Is(d, "error")

(* str.startswith: a pickled string starts with PICKLE_SIGNATURE and with *)
(* no other signature.                                                    *)
StartsWith(d, signature) ==
    IF Is(d, "pstr") THEN signature = PICKLE_SIGNATURE
    ELSE /\ Len(d.str) >= Len(signature)
         /\ SubSeq(d.str, 1, Len(signature)) = signature

(* str[n:] of a plain string *)
From(s, n) == SubSeq(s, n + 1, Len(s))

(* -2**63 <= e*2^63 + d <= 2**64-1, for |d| < 2^63 *)
InMsgpackIntRange(n) ==
    /\ (n[1] > -1 \/ (n[1] = -1 /\ n[2] >= 0))
    /\ (n[1] < 2 \/ (n[1] = 2 /\ n[2] <= -1))

Range(s) == {s[i] : i \in DOMAIN s}

(* directly_msgpackable as it would be if no string or list were tested *)
(* for a signature                                                      *)
RECURSIVE DirectlyMsgpackableUnchecked(_)
DirectlyMsgpackableUnchecked(data) ==
    \/ IsStr(data)
    \/ Is(data, "int") /\ InMsgpackIntRange(data.int)
    \/ Is(data, "bool")
    \/ /\ Is(data, "list")
       /\ \A i \in DOMAIN data.list : DirectlyMsgpackableUnchecked(data.list[i])
    \/ /\ Is(data, "dict")
       /\ \A i \in DOMAIN data.dict :
              /\ DirectlyMsgpackableUnchecked(data.dict[i][1])
              /\ DirectlyMsgpackableUnchecked(data.dict[i][2])
    \/ Is(data, "float")
    \/ Is(data, "none")

RECURSIVE DirectlyMsgpackable(_)
DirectlyMsgpackable(data) ==
    \/ IsStr(data) /\ ~ \E str_signature \in STR_SIGNATURES : StartsWith(data, str_signature)
    \/ Is(data, "int") /\ InMsgpackIntRange(data.int)
    \/ Is(data, "bool")
    \/ /\ Is(data, "list")
       /\ \A i \in DOMAIN data.list : DirectlyMsgpackable(data.list[i])
       /\ \/ Len(data.list) = 0
          \/ ~ IsStr(data.list[1])
          \/ ~ \E s \in LISTED_SIGNATURES : data.list[1] = Str(s)
    \/ /\ Is(data, "dict")
       /\ \A i \in DOMAIN data.dict :
              DirectlyMsgpackable(data.dict[i][1]) /\ DirectlyMsgpackable(data.dict[i][2])
    \/ Is(data, "float")
    \/ Is(data, "none")

(* The orders in which iterating a set can produce its elements. *)
RECURSIVE Orders(_)
Orders(S) ==
    IF S = {} THEN {<<>>}
    ELSE UNION {{<<x>> \o rest : rest \in Orders(S \ {x})} : x \in S}

(* bytes.decode("latin1"): byte b is code point b *)
DecodeLatin1(bytes) == bytes

(* str.encode("latin1"): only code points below 256 have a byte *)
IsLatin1(s) == \A i \in DOMAIN s : s[i] < 256
EncodeLatin1(s) == s

(* pickle.dumps and pickle.loads: the string of an object is the object   *)
(* behind PICKLE_SIGNATURE, and loads gives back what dumps was given.    *)
PickleDumps(data) == [pstr |-> data]
PickleLoads(data) ==
    IF Is(data, "pstr") THEN data.pstr ELSE Error("UnpicklingError")

(* make_directly_msgpackable: the set of forms the function can return,   *)
(* one for each order in which the sets inside data are iterated.         *)
(* MakeAllDirectlyMsgpackable is the comprehension over the elements.     *)
RECURSIVE MakeDirectlyMsgpackable(_), MakeAllDirectlyMsgpackable(_)
MakeDirectlyMsgpackable(data) ==
    IF DirectlyMsgpackable(data) THEN {data}
    ELSE IF Is(data, "tuple") THEN
        {List(<<Str(TUPLE_SIGNATURE)>> \o ds) : ds \in MakeAllDirectlyMsgpackable(data.tuple)}
    ELSE IF Is(data, "set") THEN
        UNION {{List(<<Str(SET_SIGNATURE)>> \o ds) : ds \in MakeAllDirectlyMsgpackable(o)} :
               o \in Orders(data.set)}
    ELSE IF Is(data, "bytes") THEN
        {Str(BYTES_SIGNATURE \o DecodeLatin1(data.bytes))}
    ELSE IF Is(data, "frozenset") THEN
        UNION {{List(<<Str(FROZENSET_SIGNATURE)>> \o ds) : ds \in MakeAllDirectlyMsgpackable(o)} :
               o \in Orders(data.frozenset)}
    ELSE IF Is(data, "bytearray") THEN
        {Str(BYTEARRAY_SIGNATURE \o DecodeLatin1(data.bytearray))}
    ELSE {PickleDumps(data)}

MakeAllDirectlyMsgpackable(elements) ==
    IF Len(elements) = 0 THEN {<<>>}
    ELSE {<<d>> \o ds : d \in MakeDirectlyMsgpackable(Head(elements)),
                        ds \in MakeAllDirectlyMsgpackable(Tail(elements))}

(* msgspec's msgpack encoder and decoder: the wire holds a str, int, bool, *)
(* nil, float, array or map. The bytes of a file that has been opened for  *)
(* writing and not written are no message: decoding them raises.           *)
Truncated == [empty |-> 0]

RECURSIVE MsgpackEncode(_), MsgpackEncodeArray(_), MsgpackEncodeMap(_)
MsgpackEncode(data) ==
    IF Is(data, "str") THEN [mstr |-> data.str]
    ELSE IF Is(data, "pstr") THEN [mpickle |-> data.pstr]
    ELSE IF Is(data, "int") THEN [mint |-> data.int]
    ELSE IF Is(data, "bool") THEN [mbool |-> data.bool]
    ELSE IF Is(data, "float") THEN [mfloat |-> data.float]
    ELSE IF Is(data, "none") THEN [mnil |-> 0]
    ELSE IF Is(data, "list") THEN [marray |-> MsgpackEncodeArray(data.list)]
    ELSE [mmap |-> MsgpackEncodeMap(data.dict)]

MsgpackEncodeArray(elements) ==
    IF Len(elements) = 0 THEN <<>>
    ELSE <<MsgpackEncode(Head(elements))>> \o MsgpackEncodeArray(Tail(elements))

MsgpackEncodeMap(items) ==
    IF Len(items) = 0 THEN <<>>
    ELSE <<<<MsgpackEncode(Head(items)[1]), MsgpackEncode(Head(items)[2])>>>>
             \o MsgpackEncodeMap(Tail(items))

RECURSIVE MsgpackDecode(_), MsgpackDecodeArray(_), MsgpackDecodeMap(_)
MsgpackDecode(wire) ==
    IF wire = Truncated THEN Error("DecodeError")
    ELSE IF Is(wire, "mstr") THEN Str(wire.mstr)
    ELSE IF Is(wire, "mpickle") THEN [pstr |-> wire.mpickle]
    ELSE IF Is(wire, "mint") THEN [int |-> wire.mint]
    ELSE IF Is(wire, "mbool") THEN Bool(wire.mbool)
    ELSE IF Is(wire, "mfloat") THEN Float(wire.mfloat)
    ELSE IF Is(wire, "mnil") THEN None
    ELSE IF Is(wire, "marray") THEN List(MsgpackDecodeArray(wire.marray))
    ELSE Dict(MsgpackDecodeMap(wire.mmap))

MsgpackDecodeArray(elements) ==
    IF Len(elements) = 0 THEN <<>>
    ELSE <<MsgpackDecode(Head(elements))>> \o MsgpackDecodeArray(Tail(elements))

MsgpackDecodeMap(items) ==
    IF Len(items) = 0 THEN <<>>
    ELSE <<<<MsgpackDecode(Head(items)[1]), MsgpackDecode(Head(items)[2])>>>>
             \o MsgpackDecodeMap(Tail(items))

(* An object pickle.dumps raises on (a lambda, a generator, an open file) *)
Lambda(x) == [lambda |-> x]

(* serialize raises: data is not directly msgpackable and pickle.dumps is *)
(* given it, or a part of it, with such an object inside.                 *)
RECURSIVE SerializeRaises(_)
SerializeRaises(data) ==
    \/ Is(data, "lambda")
    \/ Is(data, "list") /\ \E i \in DOMAIN data.list : SerializeRaises(data.list[i])
    \/ Is(data, "tuple") /\ \E i \in DOMAIN data.tuple : SerializeRaises(data.tuple[i])
    \/ Is(data, "set") /\ \E d \in data.set : SerializeRaises(d)
    \/ Is(data, "frozenset") /\ \E d \in data.frozenset : SerializeRaises(d)
    \/ Is(data, "dict") /\ \E i \in DOMAIN data.dict :
            SerializeRaises(data.dict[i][1]) \/ SerializeRaises(data.dict[i][2])

(* serialize: the byte strings the function can return for data *)
Serialize(data) == {MsgpackEncode(d) : d \in MakeDirectlyMsgpackable(data)}

(* The first exception among the elements, if any. *)
FirstError(s) ==
    IF \E i \in DOMAIN s : IsError(s[i])
    THEN s[CHOOSE i \in DOMAIN s : IsError(s[i]) /\ \A j \in 1..(i - 1) : ~ IsError(s[j])]
    ELSE None

Hashable(d) ==
    ~ (Is(d, "list") \/ Is(d, "dict") \/ Is(d, "set") \/ Is(d, "bytearray"))

(* tuple(...), set(...) and frozenset(...) of the elements made pythonic *)
Collect(signature, ds) ==
    IF IsError(FirstError(ds)) THEN FirstError(ds)
    ELSE IF signature = TUPLE_SIGNATURE THEN Tuple(ds)
    ELSE IF \E i \in DOMAIN ds : ~ Hashable(ds[i]) THEN Error("TypeError")
    ELSE IF signature = SET_SIGNATURE THEN PySet(Range(ds))
    ELSE FrozenSet(Range(ds))

RECURSIVE MakePythonic(_), MakeAllPythonic(_)

(* make_pythonic as it would be if the elements of a tuple, set or *)
(* frozenset were returned without being made pythonic themselves  *)
MakePythonicShallow(data) ==
    IF Is(data, "list") THEN
        IF Len(data.list) # 0 /\ IsStr(data.list[1])
           /\ \E s \in LISTED_SIGNATURES : data.list[1] = Str(s)
        THEN Collect(data.list[1].str, Tail(data.list))
        ELSE data
    ELSE IF IsStr(data) /\ StartsWith(data, PICKLE_SIGNATURE) THEN PickleLoads(data)
    ELSE IF IsStr(data) /\ StartsWith(data, BYTES_SIGNATURE)
        THEN Bytes(EncodeLatin1(From(data.str, BYTES_SIGNATURE_LEN)))
    ELSE IF IsStr(data) /\ StartsWith(data, BYTEARRAY_SIGNATURE)
        THEN ByteArray(EncodeLatin1(From(data.str, BYTEARRAY_SIGNATURE_LEN)))
    ELSE data

MakePythonic(data) ==
    IF IsStr(data) THEN
        IF StartsWith(data, PICKLE_SIGNATURE) THEN PickleLoads(data)
        ELSE IF StartsWith(data, BYTES_SIGNATURE) THEN
            LET s == From(data.str, BYTES_SIGNATURE_LEN)
            IN  IF IsLatin1(s) THEN Bytes(EncodeLatin1(s)) ELSE Error("UnicodeEncodeError")
        ELSE IF StartsWith(data, BYTEARRAY_SIGNATURE) THEN
            LET s == From(data.str, BYTEARRAY_SIGNATURE_LEN)
            IN  IF IsLatin1(s) THEN ByteArray(EncodeLatin1(s)) ELSE Error("UnicodeEncodeError")
        ELSE data
    ELSE IF Is(data, "list") THEN
        IF Len(data.list) # 0 /\ IsStr(data.list[1])
           /\ \E s \in LISTED_SIGNATURES : data.list[1] = Str(s)
        THEN Collect(data.list[1].str, MakeAllPythonic(Tail(data.list)))
        ELSE data
    ELSE data

MakeAllPythonic(elements) ==
    IF Len(elements) = 0 THEN <<>>
    ELSE <<MakePythonic(Head(elements))>> \o MakeAllPythonic(Tail(elements))

Deserialize(wire) == MakePythonic(MsgpackDecode(wire))

----------------------------------------------------------------------------
(* caching.py: hash. The digest of xxh3_128 is taken to have no          *)
(* collisions: it is the serialized bytes themselves, which determine    *)
(* the length affixed to it. A key per form serialize can return.        *)

Hash(data) == {[xxh3_128 |-> wire] : wire \in Serialize(data)}

----------------------------------------------------------------------------
(* helpers.py: a callable is its parameters, each a record of its name,  *)
(* kind and default (Empty when it has none). A mapping is a dict: the   *)
(* sequence of its items in insertion order.                             *)

Empty == [empty |-> 0]

Parameter(name, kind, default) == [name |-> Str(name), kind |-> kind, default |-> default]

(* dict[key] = value: an existing key keeps its place *)
DictSet(d, key, value) ==
    IF \E i \in DOMAIN d : d[i][1] = key
    THEN [i \in DOMAIN d |-> IF d[i][1] = key THEN <<key, value>> ELSE d[i]]
    ELSE Append(d, <<key, value>>)

(* d |= items *)
RECURSIVE DictUpdate(_, _)
DictUpdate(d, items) ==
    IF Len(items) = 0 THEN d
    ELSE DictUpdate(DictSet(d, Head(items)[1], Head(items)[2]), Tail(items))

(* seq[:n] and seq[n:], where n may be None *)
Upto(seq, n) ==
    IF n = None THEN seq
    ELSE SubSeq(seq, 1, IF n.int[2] < Len(seq) THEN n.int[2] ELSE Len(seq))

After(seq, n) ==
    IF n = None THEN seq ELSE SubSeq(seq, n.int[2] + 1, Len(seq))

Min(a, b) == IF a < b THEN a ELSE b

(* signaturize: <<signature, args_parameter, args_i>> *)
RECURSIVE SignaturizeFrom(_, _, _)
SignaturizeFrom(parameters, i, acc) ==
    IF i > Len(parameters) THEN acc
    ELSE LET parameter == parameters[i]
         IN  IF parameter.kind = "VAR_KEYWORD" THEN SignaturizeFrom(parameters, i + 1, acc)
             ELSE SignaturizeFrom(parameters, i + 1,
                    [signature |-> DictSet(acc.signature, parameter.name,
                                           IF parameter.default # Empty
                                           THEN parameter.default ELSE None),
                     args_parameter |-> IF parameter.kind = "VAR_POSITIONAL"
                                        THEN parameter.name ELSE acc.args_parameter,
                     args_i |-> IF parameter.kind = "VAR_POSITIONAL"
                                THEN PyInt(i - 1) ELSE acc.args_i])

Signaturize(parameters) ==
    SignaturizeFrom(parameters, 1,
                    [signature |-> <<>>, args_parameter |-> None, args_i |-> None])

(* inflate_arguments as it would be if the positional arguments were *)
(* not truncated at the index of the args parameter                  *)
InflateArgumentsUntruncated(signature, args_parameter, args_i, args, kwargs) ==
    LET zipped == [i \in 1..Min(Len(signature), Len(args)) |-> <<signature[i][1], args[i]>>]
        mapped == DictUpdate(signature, zipped)
        tailed == IF args_parameter # None
                  THEN DictSet(mapped, args_parameter, Tuple(After(args, args_i)))
                  ELSE mapped
    IN  Dict(DictUpdate(tailed, kwargs))

(* inflate_arguments *)
InflateArguments(signature, args_parameter, args_i, args, kwargs) ==
    LET positional == Upto(args, args_i)
        zipped == [i \in 1..Min(Len(signature), Len(positional)) |->
                       <<signature[i][1], positional[i]>>]
        mapped == DictUpdate(signature, zipped)
        tailed == IF args_parameter # None
                  THEN DictSet(mapped, args_parameter, Tuple(After(args, args_i)))
                  ELSE mapped
    IN  Dict(DictUpdate(tailed, kwargs))

(* persist_cache.py, lines 54 to 67 of a wrapper: a cached callable is   *)
(* the parameters inspect.signature gives for it (without self for a     *)
(* bound method) and is_method = inspect.ismethod(func). The wrapper is  *)
(* given args and kwargs as the caller wrote them: for a bound method    *)
(* they do not hold the receiver.                                        *)
Callable(parameters, is_method) == [parameters |-> parameters, is_method |-> is_method]

(* The canonical arguments, had no positional argument been left out *)
ArgumentsOfAll(func, args, kwargs) ==
    LET s == Signaturize(func.parameters)
    IN  InflateArguments(s.signature, s.args_parameter, s.args_i, args, kwargs)

Arguments(func, args, kwargs) ==
    LET s == Signaturize(func.parameters)
    IN  InflateArguments(s.signature, s.args_parameter, s.args_i,
                         After(args, IF func.is_method THEN PyInt(1) ELSE PyInt(0)), kwargs)

Keys(func, args, kwargs) == Hash(Arguments(func, args, kwargs))

----------------------------------------------------------------------------
(* caching.py: the entry store. The cache directory is a record: whether *)
(* it exists, and its entries (a function from the keys that have a      *)
(* .msgpack file to the content and the modification time of the file).  *)

NOT_IN_CACHE == [sentinel |-> "NOT_IN_CACHE"]

Timedelta(seconds) == [timedelta |-> seconds]

NoDirectory == [exists |-> FALSE, files |-> <<>>]

Without(files, key) == [k \in DOMAIN files \ {key} |-> files[k]]

(* FileLock(f'{path}.lock'): acquiring creates the lock file and the    *)
(* directories above it. The lock files themselves, which nothing reads *)
(* or lists as entries, are left out of the directory.                  *)
FileLock(dir, key) == [dir EXCEPT !.exists = TRUE]

(* set: the directories the function can leave, one per form of the bytes *)
Set(key, value, dir, t) ==
    {[FileLock(dir, key) EXCEPT !.files = (key :> [content |-> wire, mtime |-> t]) @@ @] :
        wire \in Serialize(value)}

(* The comparisons the other way round: expired while young *)
ExpiredWhenYoung(expiry, timestamp, t) ==
    IF Is(expiry, "timedelta") /\ timestamp + expiry.timedelta > t THEN "expired"
    ELSE IF Is(expiry, "int") THEN
        IF timestamp + expiry.int[2] > t THEN "expired" ELSE "fresh"
    ELSE "TypeError"

(* The condition of lines 41 and 42, and of lines 101 and 102: the sum   *)
(* of a timestamp and a timedelta, or None, is a TypeError.              *)
Expired(expiry, timestamp, t) ==
    IF Is(expiry, "timedelta") /\ timestamp + expiry.timedelta < t THEN "expired"
    ELSE IF Is(expiry, "int") THEN
        IF timestamp + expiry.int[2] < t THEN "expired" ELSE "fresh"
    ELSE "TypeError"

(* get as it would be if it read whichever file of the directory *)
GetOfAny(key, dir, expiry, t) ==
    IF key \notin DOMAIN dir.files THEN [value |-> NOT_IN_CACHE, dir |-> dir]
    ELSE LET locked == FileLock(dir, key)
             file == dir.files[CHOOSE k \in DOMAIN dir.files : TRUE]
             expired == IF expiry # None THEN Expired(expiry, file.mtime, t) ELSE "fresh"
         IN  IF expired = "expired"
             THEN [value |-> NOT_IN_CACHE,
                   dir |-> [locked EXCEPT !.files = Without(@, key)]]
             ELSE IF expired = "TypeError"
             THEN [value |-> Error("TypeError"), dir |-> locked]
             ELSE [value |-> Deserialize(file.content), dir |-> locked]

(* get as it would be if reading an entry set its time of modification *)
GetTouching(key, dir, expiry, t) ==
    IF key \notin DOMAIN dir.files THEN [value |-> NOT_IN_CACHE, dir |-> dir]
    ELSE LET locked == FileLock(dir, key)
             file == dir.files[key]
             expired == IF expiry # None THEN Expired(expiry, file.mtime, t) ELSE "fresh"
         IN  IF expired = "expired"
             THEN [value |-> NOT_IN_CACHE,
                   dir |-> [locked EXCEPT !.files = Without(@, key)]]
             ELSE IF expired = "TypeError"
             THEN [value |-> Error("TypeError"), dir |-> locked]
             ELSE [value |-> Deserialize(file.content),
                   dir |-> [locked EXCEPT !.files[key].mtime = t]]

(* get: what it returns (or raises) and the directory it leaves *)
Get(key, dir, expiry, t) ==
    IF key \notin DOMAIN dir.files THEN [value |-> NOT_IN_CACHE, dir |-> dir]
    ELSE LET locked == FileLock(dir, key)
             file == dir.files[key]
             expired == IF expiry # None THEN Expired(expiry, file.mtime, t) ELSE "fresh"
         IN  IF expired = "expired"
             THEN [value |-> NOT_IN_CACHE,
                   dir |-> [locked EXCEPT !.files = Without(@, key)]]
             ELSE IF expired = "TypeError"
             THEN [value |-> Error("TypeError"), dir |-> locked]
             ELSE [value |-> Deserialize(file.content), dir |-> locked]

(* The entries removed and the directory left behind *)
DeleteEntries(dir) == [dir EXCEPT !.files = <<>>]

Delete(dir) == NoDirectory

(* The directory made and nothing deleted *)
ClearNothing(dir) == [dir EXCEPT !.exists = TRUE]

Clear(dir) == [Delete(dir) EXCEPT !.exists = TRUE]

(* flush, for the order in which os.listdir gives the entries: what it   *)
(* raises (None if nothing) and the directory it leaves                  *)
RECURSIVE FlushEntries(_, _, _, _)
FlushEntries(listing, dir, expiry, t) ==
    IF Len(listing) = 0 THEN [error |-> None, dir |-> dir]
    ELSE LET key == Head(listing)
             locked == FileLock(dir, key)
             expired == Expired(expiry, dir.files[key].mtime, t)
         IN  IF expired = "TypeError"
             THEN [error |-> Error("TypeError"), dir |-> locked]
             ELSE FlushEntries(Tail(listing),
                               IF expired = "expired"
                               THEN [locked EXCEPT !.files = Without(@, key)]
                               ELSE locked,
                               expiry, t)

(* flush as it would be if it returned at once when there is no expiry *)
FlushWhenSet(dir, expiry, t, listing) ==
    IF ~ dir.exists THEN [error |-> Error("FileNotFoundError"), dir |-> dir]
    ELSE IF expiry = None THEN [error |-> None, dir |-> dir]
    ELSE FlushEntries(listing, dir, expiry, t)

Flush(dir, expiry, t, listing) ==
    IF ~ dir.exists THEN [error |-> Error("FileNotFoundError"), dir |-> dir]
    ELSE FlushEntries(listing, dir, expiry, t)

----------------------------------------------------------------------------
(* The values the codec is checked on. *)

MaxLen == 2

A == <<97>>

(* Strings: ordinary, equal to a list signature, starting with a string   *)
(* signature, the pickle signature itself, and holding the first          *)
(* character of a signature only.                                         *)
CodecStrings ==
    {Str(A), Str(TUPLE_SIGNATURE), Str(BYTES_SIGNATURE \o A), Str(PICKLE_SIGNATURE),
     Str(<<CUCUMBER>>)}

(* Integers: 7, 2^64-1, 2^64, -2^63 and -2^63-1. *)
CodecIntegers == {PyInt(7), BigInt(2, -1), BigInt(2, 0), BigInt(-1, 0), BigInt(-1, -1)}

CodecHashables ==
    CodecStrings \cup CodecIntegers
        \cup {Bool(TRUE), None, Float(2), Obj(1), Bytes(<<255>>)}

CodecLeaves == CodecHashables \cup {ByteArray(A)}

SeqsUpTo(S, n) == UNION {[1..k -> S] : k \in 0..n}

RECURSIVE SubsetsUpTo(_, _)
SubsetsUpTo(S, n) ==
    IF n = 0 THEN {{}}
    ELSE LET smaller == SubsetsUpTo(S, n - 1)
         IN  smaller \cup {T \cup {x} : T \in smaller, x \in S}

DictKeys == {Str(A), PyInt(7), Str(BYTES_SIGNATURE \o A)}
DictValues == {PyInt(7), Str(TUPLE_SIGNATURE), Bytes(<<255>>), None}

Dicts(keys, values, n) ==
    {Dict(d) : d \in {s \in SeqsUpTo(keys \X values, n) :
                          \A i, j \in DOMAIN s : i # j => s[i][1] # s[j][1]}}

Containers(elements, hashables, n) ==
    {List(s) : s \in SeqsUpTo(elements, n)}
        \cup {Tuple(s) : s \in SeqsUpTo(elements, n)}
        \cup {PySet(T) : T \in SubsetsUpTo(hashables, n)}
        \cup {FrozenSet(T) : T \in SubsetsUpTo(hashables, n)}

Level1 == Containers(CodecLeaves, CodecHashables, MaxLen) \cup Dicts(DictKeys, DictValues, MaxLen)

(* Nested values: a container of one value of Level1, and a mapping with *)
(* such a value.                                                         *)
Level2 ==
    Containers(Level1, {v \in Level1 : Hashable(v)}, 1)
        \cup {Dict(<<<<Str(A), v>>>>) : v \in Level1}

CodecValues == CodecLeaves \cup Level1 \cup Level2

----------------------------------------------------------------------------
(* The codec on its own: a value is serialized, then deserialized. *)

Idle == [pc |-> "idle"]

(* One caller at a time: no concurrent caller, and no lock is held. *)
Sequential ==
    /\ threads = <<>>
    /\ locks = <<>>
    /\ puts = <<>>
    /\ disk = <<>>

(* No wrapper is constructed and nothing is cached. *)
Unused ==
    /\ shape = "sync"
    /\ now = 0
    /\ fs = NoDirectory
    /\ handles = <<>>
    /\ pending = Idle
    /\ calls = 0
    /\ last = Idle
    /\ Sequential

CodecInit ==
    /\ Unused
    /\ codec \in {[pc |-> "value", in |-> v, wire |-> [mnil |-> 0], out |-> None] :
                    v \in CodecValues}
    /\ binding = Idle

CodecSerialize ==
    /\ codec.pc = "value"
    /\ \E wire \in Serialize(codec.in) :
           codec' = [codec EXCEPT !.pc = "bytes", !.wire = wire]
    /\ UNCHANGED <<binding, engine>>

CodecDeserialize ==
    /\ codec.pc = "bytes"
    /\ codec' = [codec EXCEPT !.pc = "done", !.out = Deserialize(codec.wire)]
    /\ UNCHANGED <<binding, engine>>

CodecNext == CodecSerialize \/ CodecDeserialize

SpecCodec == CodecInit /\ [][CodecNext]_vars

(* C7: deserialize(serialize(v)) equals v, for every value of the         *)
(* directly encodable model and of the six escaped kinds, nested or not.  *)
C7_RoundTrip == codec.pc = "done" => codec.out = codec.in

(* A tuple holding a set has been through the codec. *)
C7_Witness ==
    /\ codec.pc = "done"
    /\ Is(codec.in, "tuple")
    /\ Len(codec.in.tuple) = 1
    /\ Is(codec.in.tuple[1], "set")
    /\ Cardinality(codec.in.tuple[1].set) = MaxLen

----------------------------------------------------------------------------
(* Canonicalisation on its own: the same logical arguments are bound in  *)
(* two calls, each in one of the ways Python allows.                     *)

MaxTail == 2

NameA == <<97>>
NameB == <<98>>
NameK == <<107>>
NameX == <<120>>
NameY == <<121>>
NameArgs == <<97, 114, 103, 115>>
NameKwargs == <<107, 119, 97, 114, 103, 115>>

(* f(a, b=2) *)
FuncAB == <<Parameter(NameA, "POSITIONAL_OR_KEYWORD", Empty),
            Parameter(NameB, "POSITIONAL_OR_KEYWORD", PyInt(2))>>
(* f(a, *args, k=0) *)
FuncStar == <<Parameter(NameA, "POSITIONAL_OR_KEYWORD", Empty),
              Parameter(NameArgs, "VAR_POSITIONAL", Empty),
              Parameter(NameK, "KEYWORD_ONLY", PyInt(0))>>
(* f(a, b=2, **kwargs) *)
FuncKwargs == <<Parameter(NameA, "POSITIONAL_OR_KEYWORD", Empty),
                Parameter(NameB, "POSITIONAL_OR_KEYWORD", PyInt(2)),
                Parameter(NameKwargs, "VAR_KEYWORD", Empty)>>
(* the shape of the functions of the tests: a variadic tail, k=None and *)
(* variadic keywords                                                   *)
FuncTest == <<Parameter(NameArgs, "VAR_POSITIONAL", Empty),
              Parameter(NameK, "KEYWORD_ONLY", None),
              Parameter(NameKwargs, "VAR_KEYWORD", Empty)>>

(* Plain functions, and the bound method m(self, a, b=2) of an instance. *)
Callables ==
    {Callable(f, FALSE) : f \in {FuncAB, FuncStar, FuncKwargs, FuncTest}}
        \cup {Callable(FuncAB, TRUE)}

ArgValues == {PyInt(1), PyInt(2)}
ExtraItems == {<<Str(NameX), PyInt(3)>>, <<Str(NameY), PyInt(3)>>}

Named(parameters) ==
    {i \in DOMAIN parameters :
        parameters[i].kind \in {"POSITIONAL_OR_KEYWORD", "KEYWORD_ONLY"}}
Positionals(parameters) ==
    {i \in DOMAIN parameters : parameters[i].kind = "POSITIONAL_OR_KEYWORD"}
HasKind(parameters, kind) == \E i \in DOMAIN parameters : parameters[i].kind = kind

(* The logical arguments of a call: a value for each named parameter     *)
(* (Empty: left to its default), the variadic tail and the extra         *)
(* keywords in the order the caller gives them.                          *)
LogicalArguments(parameters) ==
    {[given |-> g, tail |-> t, extra |-> e] :
        g \in {h \in [Named(parameters) -> ArgValues \cup {Empty}] :
                  \A i \in Named(parameters) :
                      h[i] = Empty => parameters[i].default # Empty},
        t \in IF HasKind(parameters, "VAR_POSITIONAL")
              THEN SeqsUpTo(ArgValues, MaxTail) ELSE {<<>>},
        e \in IF HasKind(parameters, "VAR_KEYWORD")
              THEN UNION {Orders(T) : T \in SUBSET ExtraItems}
              ELSE {<<>>}}

Position(seq, x) == CHOOSE i \in DOMAIN seq : seq[i] = x

(* The calls that bind the logical arguments: the first j positional     *)
(* parameters and the tail are passed by position, the rest by keyword   *)
(* in any order that keeps the extra keywords in the caller's order.     *)
Calls(parameters, logical) ==
    LET pos == Positionals(parameters)
        splits == {j \in 0..Cardinality(pos) :
                      /\ \A i \in pos : i <= j => logical.given[i] # Empty
                      /\ Len(logical.tail) > 0 => j = Cardinality(pos)}
        keywords(j) ==
            {<<parameters[i].name, logical.given[i]>> :
                i \in {n \in Named(parameters) :
                          logical.given[n] # Empty /\ ~ (n \in pos /\ n <= j)}}
                \cup Range(logical.extra)
        inOrder(o) ==
            \A m, n \in DOMAIN logical.extra :
                m < n => Position(o, logical.extra[m]) < Position(o, logical.extra[n])
    IN  UNION {{[args |-> [i \in 1..j |-> logical.given[i]] \o logical.tail, kwargs |-> o] :
                   o \in {k \in Orders(keywords(j)) : inOrder(k)}} :
               j \in splits}

ArgsInit ==
    /\ Unused
    /\ codec = Idle
    /\ binding \in UNION {{[pc |-> "arguments", func |-> f, logical |-> l,
                              first |-> Idle, second |-> Idle] :
                                l \in LogicalArguments(f.parameters)} :
                           f \in Callables}

Canonicalized(func, call) ==
    {[args |-> call.args, kwargs |-> call.kwargs,
      arguments |-> Arguments(func, call.args, call.kwargs), key |-> key] :
        key \in Keys(func, call.args, call.kwargs)}

ArgsFirstCall ==
    /\ binding.pc = "arguments"
    /\ \E call \in Calls(binding.func.parameters, binding.logical) :
       \E c \in Canonicalized(binding.func, call) :
           binding' = [binding EXCEPT !.pc = "first", !.first = c]
    /\ UNCHANGED <<codec, engine>>

ArgsSecondCall ==
    /\ binding.pc = "first"
    /\ \E call \in Calls(binding.func.parameters, binding.logical) :
       \E c \in Canonicalized(binding.func, call) :
           binding' = [binding EXCEPT !.pc = "done", !.second = c]
    /\ UNCHANGED <<codec, engine>>

ArgsNext == ArgsFirstCall \/ ArgsSecondCall

SpecArgs == ArgsInit /\ [][ArgsNext]_vars

(* The first call again, with its keywords in another order *)
ArgsPermutedCall ==
    /\ binding.pc = "first"
    /\ \E kwargs \in Orders(Range(binding.first.kwargs)) :
       \E c \in Canonicalized(binding.func, [args |-> binding.first.args, kwargs |-> kwargs]) :
           binding' = [binding EXCEPT !.pc = "done", !.second = c]
    /\ UNCHANGED <<codec, engine>>

PermutedNext == ArgsFirstCall \/ ArgsPermutedCall

SpecPermuted == ArgsInit /\ [][PermutedNext]_vars

(* C2: binding the same logical arguments all-positionally, all by       *)
(* keyword or in any valid mixed split yields an identical mapping of    *)
(* canonical arguments and the same key, for any cached callable.        *)
C2_SameArguments ==
    binding.pc = "done" =>
        /\ binding.first.arguments = binding.second.arguments
        /\ binding.first.key = binding.second.key

(* The same, for the callables that are plain functions. *)
C2_SameArgumentsOfFunctions ==
    (binding.pc = "done" /\ ~ binding.func.is_method) =>
        /\ binding.first.arguments = binding.second.arguments
        /\ binding.first.key = binding.second.key

----------------------------------------------------------------------------
(* persist_cache.py: the wrappers of one cached function f(x), all on    *)
(* the same cache directory (the default one, named after the function). *)

MaxTime == 2
MaxCalls == 2
Handles == {"h1", "h2"}
ExpiryValues == {None, PyInt(1), Timedelta(1)}
Shapes == {"sync", "async", "generator"}
CachedArguments == {PyInt(1), PyInt(2)}

NoHandle == [constructed |-> FALSE]
NoEntry == [absent |-> TRUE]

FuncX == <<Parameter(NameX, "POSITIONAL_OR_KEYWORD", Empty)>>
Cached == Callable(FuncX, FALSE)

(* f(x) and f(x=x) *)
CallsOf(x) == Calls(FuncX, [given |-> <<x>>, tail |-> <<>>, extra |-> <<>>])

(* What the n-th invocation of the function returns: its argument and a  *)
(* number no other invocation returns (the functions of the tests return *)
(* their arguments and random.random()).                                 *)
Result(x, n) == Tuple(<<x, Float(n)>>)

(* What the generator function yields for x: range(x) *)
Items(x) == [i \in 1..x.int[2] |-> PyInt(i - 1)]

Entry(dir, key) == IF key \in DOMAIN dir.files THEN dir.files[key] ELSE NoEntry

(* The entry of key, marked with the wrapper that had it written. *)
WrittenBy(dir, key, h) ==
    [dir EXCEPT !.files = [k \in DOMAIN @ |->
        IF k = key THEN [content |-> @[k].content, mtime |-> @[k].mtime, by |-> h] ELSE @[k]]]

(* What a step of a wrapper leaves in last: whether the step looked the  *)
(* key up, the wrapper, the key, the expiry the lookup used, the age of  *)
(* the entry the lookup came upon (-1: none), how the step ended, what   *)
(* it gave the caller (a generator: all it has yielded), how often it    *)
(* invoked the function and whether it called caching.set.               *)
Step(op, looked, h, key, expiry, age, outcome, value, invoked, stored) ==
    [op |-> op, looked |-> looked, h |-> h, key |-> key, expiry |-> expiry, age |-> age,
     outcome |-> outcome, value |-> value, invoked |-> invoked, stored |-> stored]

Age(dir, key, t) == IF key \in DOMAIN dir.files THEN t - dir.files[key].mtime ELSE -1

(* Results that are false in a condition: None, False, 0, '', [] and {} *)
FalsyResults == {None, Bool(FALSE), PyInt(0), Str(<<>>), List(<<>>), Dict(<<>>)}

(* The test as it would be were it `not value` *)
MissWhenFalsy(value) == value = NOT_IN_CACHE \/ value \in FalsyResults

(* Whatever get returns, the function is invoked. *)
MissAlways(value) == TRUE

(* The test of lines 70, 87 and 104: (value := ...) is NOT_IN_CACHE *)
Miss(value) == value = NOT_IN_CACHE

(* The item put at the front *)
Prepended(value, item) == <<item>> \o value

(* value.append(item), line 108 *)
Appended(value, item) == Append(value, item)

Init ==
    /\ codec = Idle
    /\ binding = Idle
    /\ shape \in Shapes
    /\ now = 0
    /\ fs = NoDirectory
    /\ handles = [h \in Handles |-> NoHandle]
    /\ pending = Idle
    /\ calls = 0
    /\ last = [op |-> "none"]
    /\ Sequential

(* decorator, lines 36 to 57: cache(expiry=...)(func) *)
Decorator(h, expiry) ==
    /\ ~ handles[h].constructed
    /\ LET made == [fs EXCEPT !.exists = TRUE]
       IN  \E listing \in Orders(DOMAIN made.files) :
               LET flushed == IF expiry # None THEN Flush(made, expiry, now, listing)
                              ELSE [error |-> None, dir |-> made]
               IN  /\ fs' = flushed.dir
                   /\ handles' = IF flushed.error = None
                                 THEN [handles EXCEPT
                                          ![h] = [constructed |-> TRUE, expiry |-> expiry]]
                                 ELSE handles
                   /\ last' = [op |-> "cache", h |-> h, expiry |-> expiry,
                               outcome |-> IF flushed.error = None THEN "returned"
                                           ELSE "raised",
                               value |-> flushed.error]
    /\ UNCHANGED <<codec, binding, disk, shared, shape, now, pending, calls>>

(* sync_wrapper *)
SyncWrapper(h, x) ==
    /\ shape = "sync"
    /\ handles[h].constructed
    /\ \E call \in CallsOf(x) : \E key \in Keys(Cached, call.args, call.kwargs) :
           LET expiry == handles[h].expiry
               age == Age(fs, key, now)
               got == Get(key, fs, expiry, now)
           IN  IF IsError(got.value)
               THEN /\ fs' = got.dir
                    /\ last' = Step("call", TRUE, h, key, expiry, age, "raised",
                                    got.value, 0, FALSE)
                    /\ UNCHANGED calls
               ELSE IF Miss(got.value)
               THEN /\ calls < MaxCalls
                    /\ \E dir \in Set(key, Result(x, calls + 1), got.dir, now) :
                           fs' = WrittenBy(dir, key, h)
                    /\ calls' = calls + 1
                    /\ last' = Step("call", TRUE, h, key, expiry, age, "returned",
                                    Result(x, calls + 1), 1, TRUE)
               ELSE /\ fs' = got.dir
                    /\ last' = Step("call", TRUE, h, key, expiry, age, "returned",
                                    got.value, 0, FALSE)
                    /\ UNCHANGED calls
    /\ UNCHANGED <<codec, binding, disk, shared, shape, now, handles, pending>>

(* async_wrapper, up to the await of line 88 or, on a hit, to its end *)
AsyncWrapper(h, x) ==
    /\ shape = "async"
    /\ handles[h].constructed
    /\ \E call \in CallsOf(x) : \E key \in Keys(Cached, call.args, call.kwargs) :
           LET expiry == handles[h].expiry
               age == Age(fs, key, now)
               got == Get(key, fs, expiry, now)
           IN  /\ fs' = got.dir
               /\ IF IsError(got.value)
                  THEN /\ last' = Step("call", TRUE, h, key, expiry, age, "raised",
                                       got.value, 0, FALSE)
                       /\ UNCHANGED <<calls, pending>>
                  ELSE IF Miss(got.value)
                  THEN /\ calls < MaxCalls
                       /\ pending = Idle
                       /\ calls' = calls + 1
                       /\ pending' = [pc |-> "await", h |-> h, x |-> x, n |-> calls + 1,
                                      key |-> key]
                       /\ last' = Step("await", TRUE, h, key, expiry, age, "awaiting",
                                       None, 1, FALSE)
                  ELSE /\ last' = Step("call", TRUE, h, key, expiry, age, "returned",
                                       got.value, 0, FALSE)
                       /\ UNCHANGED <<calls, pending>>
    /\ UNCHANGED <<codec, binding, disk, shared, shape, now, handles>>

(* async_wrapper, from the await of line 88: the function has returned *)
AsyncResume ==
    /\ pending.pc = "await"
    /\ LET p == pending
       IN  /\ \E dir \in Set(p.key, Result(p.x, p.n), fs, now) :
                  fs' = WrittenBy(dir, p.key, p.h)
           /\ last' = Step("call", FALSE, p.h, p.key, None, -1, "returned",
                           Result(p.x, p.n), 0, TRUE)
    /\ pending' = Idle
    /\ UNCHANGED <<codec, binding, disk, shared, shape, now, handles, calls>>

(* generator_wrapper: the call makes a generator object and runs nothing *)
GeneratorWrapper(h, x) ==
    /\ shape = "generator"
    /\ handles[h].constructed
    /\ pending = Idle
    /\ \E call \in CallsOf(x) :
           pending' = [pc |-> "start", h |-> h, x |-> x, call |-> call]
    /\ last' = [op |-> "generator", h |-> h]
    /\ UNCHANGED <<codec, binding, disk, shared, shape, now, fs, handles, calls>>

(* The first next() of a generator object: lines 98 to 104, then the     *)
(* first item of the producer (lines 105 to 110) or of the stored value  *)
(* (lines 116 and 117); with no first item, lines 112 to 114 or the end. *)
GeneratorStart ==
    /\ pending.pc = "start"
    /\ LET p == pending
           expiry == handles[p.h].expiry
       IN  \E key \in Keys(Cached, p.call.args, p.call.kwargs) :
           LET age == Age(fs, key, now)
               got == Get(key, fs, expiry, now)
               miss == Miss(got.value)
               items == IF miss THEN Items(p.x)
                        ELSE IF Is(got.value, "list") THEN got.value.list ELSE <<>>
               invoked == IF miss THEN 1 ELSE 0
           IN  IF IsError(got.value)
               THEN /\ fs' = got.dir
                    /\ pending' = Idle
                    /\ last' = Step("next", TRUE, p.h, key, expiry, age, "raised",
                                    got.value, 0, FALSE)
                    /\ UNCHANGED calls
               ELSE /\ miss => calls < MaxCalls
                    /\ calls' = calls + invoked
                    /\ IF Len(items) = 0
                       THEN /\ IF miss
                               THEN \E dir \in Set(key, List(<<>>), got.dir, now) :
                                        fs' = WrittenBy(dir, key, p.h)
                               ELSE fs' = got.dir
                            /\ pending' = Idle
                            /\ last' = Step("next", TRUE, p.h, key, expiry, age, "stopped",
                                            <<>>, invoked, miss)
                       ELSE /\ fs' = got.dir
                            /\ pending' = [pc |-> IF miss THEN "producer" ELSE "cache",
                                           h |-> p.h, key |-> key, items |-> items,
                                           value |-> Appended(<<>>, items[1])]
                            /\ last' = Step("next", TRUE, p.h, key, expiry, age, "yielded",
                                            <<items[1]>>, invoked, FALSE)
    /\ UNCHANGED <<codec, binding, disk, shared, shape, now, handles>>

(* A later next(): the loop of lines 107 to 110 and, at its end, lines   *)
(* 112 to 114; or the loop of lines 116 and 117. items is what the       *)
(* producer or the stored list has to give, value what has been          *)
(* appended (line 108) or, in a replay, given so far.                    *)
GeneratorNext ==
    /\ pending.pc \in {"producer", "cache"}
    /\ LET p == pending
           n == Len(p.value)
       IN  IF n < Len(p.items)
           THEN /\ pending' = [pending EXCEPT !.value = Appended(@, p.items[n + 1])]
                /\ last' = Step("next", FALSE, p.h, p.key, None, -1, "yielded",
                                SubSeq(p.items, 1, n + 1), 0, FALSE)
                /\ UNCHANGED fs
           ELSE /\ pending' = Idle
                /\ IF p.pc = "producer"
                   THEN /\ \E dir \in Set(p.key, List(p.value), fs, now) :
                               fs' = WrittenBy(dir, p.key, p.h)
                   ELSE UNCHANGED fs
                /\ last' = Step("next", FALSE, p.h, p.key, None, -1, "stopped",
                                p.items, 0, p.pc = "producer")
    /\ UNCHANGED <<codec, binding, disk, shared, shape, now, handles, calls>>

(* The caller stops consuming: the generator object is closed or dropped, *)
(* and GeneratorExit leaves the wrapper at its yield.                     *)
GeneratorClose ==
    /\ pending.pc \in {"start", "producer", "cache"}
    /\ pending' = Idle
    /\ last' = [op |-> "close", h |-> pending.h, at |-> pending.pc]
    /\ UNCHANGED <<codec, binding, disk, shared, shape, now, fs, handles, calls>>

(* delete_cache *)
DeleteCache(h) ==
    /\ handles[h].constructed
    /\ fs' = Delete(fs)
    /\ last' = [op |-> "delete", h |-> h, outcome |-> "returned", existed |-> fs.exists,
                entries |-> Cardinality(DOMAIN fs.files)]
    /\ UNCHANGED <<codec, binding, disk, shared, shape, now, handles, pending, calls>>

(* clear_cache *)
ClearCache(h) ==
    /\ handles[h].constructed
    /\ fs' = Clear(fs)
    /\ last' = [op |-> "clear", h |-> h, outcome |-> "returned", existed |-> fs.exists,
                entries |-> Cardinality(DOMAIN fs.files)]
    /\ UNCHANGED <<codec, binding, disk, shared, shape, now, handles, pending, calls>>

(* flush_cache *)
FlushCache(h) ==
    /\ handles[h].constructed
    /\ \E listing \in Orders(DOMAIN fs.files) :
           LET flushed == Flush(fs, handles[h].expiry, now, listing)
           IN  /\ fs' = flushed.dir
               /\ last' = [op |-> "flush", h |-> h, expiry |-> handles[h].expiry,
                           outcome |-> IF flushed.error = None THEN "returned" ELSE "raised",
                           value |-> flushed.error, existed |-> fs.exists,
                           entries |-> Cardinality(DOMAIN fs.files)]
    /\ UNCHANGED <<codec, binding, disk, shared, shape, now, handles, pending, calls>>

(* The expiry of the wrapper left as it was *)
SetExpiryIgnored(h, value) ==
    /\ handles[h].constructed
    /\ last' = [op |-> "set_expiry", h |-> h, value |-> value]
    /\ UNCHANGED <<codec, binding, disk, shared, shape, now, fs, handles, pending, calls>>

(* set_expiry *)
SetExpiry(h, value) ==
    /\ handles[h].constructed
    /\ handles' = [handles EXCEPT ![h].expiry = value]
    /\ last' = [op |-> "set_expiry", h |-> h, value |-> value]
    /\ UNCHANGED <<codec, binding, disk, shared, shape, now, fs, pending, calls>>

(* A second passes. *)
Tick ==
    /\ now < MaxTime
    /\ now' = now + 1
    /\ last' = [op |-> "tick"]
    /\ UNCHANGED <<codec, binding, disk, shared, shape, fs, handles, pending, calls>>

(* What can be done with any wrapper, and the clock *)
Maintain ==
    \/ \E h \in Handles, expiry \in ExpiryValues : Decorator(h, expiry)
    \/ \E h \in Handles : DeleteCache(h)
    \/ \E h \in Handles : ClearCache(h)
    \/ \E h \in Handles : FlushCache(h)
    \/ \E h \in Handles, value \in ExpiryValues : SetExpiry(h, value)
    \/ Tick

InitSync == Init /\ shape = "sync"

NextSync ==
    \/ \E h \in Handles, x \in CachedArguments : SyncWrapper(h, x)
    \/ Maintain

SpecSync == InitSync /\ [][NextSync]_vars

InitAsync == Init /\ shape = "async"

NextAsync ==
    \/ \E h \in Handles, x \in CachedArguments : AsyncWrapper(h, x)
    \/ AsyncResume
    \/ Maintain

SpecAsync == InitAsync /\ [][NextAsync]_vars

InitGenerator == Init /\ shape = "generator"

NextGenerator ==
    \/ \E h \in Handles, x \in CachedArguments : GeneratorWrapper(h, x)
    \/ GeneratorStart
    \/ GeneratorNext
    \/ GeneratorClose
    \/ Maintain

SpecGenerator == InitGenerator /\ [][NextGenerator]_vars

----------------------------------------------------------------------------
(* Threads and processes on one cache directory: each runs one operation *)
(* at a time, in the steps between which the others can run. A lock is a *)
(* flock on the .lock file: a caller holds it on the file it opened, and *)
(* locks[key] is who holds the lock of the file now at that path.        *)

Threads == {"t1", "t2"}
SharedArguments == {PyInt(1)}
ThreadExpiries == {None, PyInt(0), Timedelta(0)}

Free == "free"

(* Every caller gets the lock at once. *)
AcquirableAlways(held, key) == TRUE

(* FileLock.acquire as it would be with one lock for the whole directory *)
AcquirableWhenAllFree(held, key) == \A k \in DOMAIN held : held[k] = Free

(* FileLock.acquire can return: the lock file is not there yet, or no one *)
(* holds its lock.                                                        *)
Acquirable(held, key) == IF key \in DOMAIN held THEN held[key] = Free ELSE TRUE

Acquire(held, key, t) == (key :> t) @@ held

(* A release that leaves the lock with its holder *)
ReleaseNever(held, key, t) == held

(* A release that leaves the lock file locked by no caller that runs *)
ReleaseLost(held, key, t) ==
    IF key \in DOMAIN held /\ held[key] = t THEN [held EXCEPT ![key] = "lost"] ELSE held

(* FileLock.release: the lock file stays *)
Release(held, key, t) ==
    IF key \in DOMAIN held /\ held[key] = t THEN [held EXCEPT ![key] = Free] ELSE held

(* The file a caller has open is the one at the path while the path has   *)
(* not been removed and made again: ino tells them apart. A new file gets *)
(* a number no caller has open.                                           *)
Opened(t) == IF threads[t].pc = "set_opened" THEN {threads[t].ino} ELSE {}

FreshIno == CHOOSE i \in 1..Cardinality(Threads) : \A t \in Threads : i \notin Opened(t)

(* What the n-th invocation of the function can return *)
ThreadResults(x, n) == {Result(x, n), Lambda(n)}

Returns(t, op, key, outcome, value) ==
    [op |-> op, t |-> t, key |-> key, outcome |-> outcome, value |-> value]

InitThreads ==
    /\ codec = Idle
    /\ binding = Idle
    /\ shape = "sync"
    /\ now = 0
    /\ fs = [exists |-> TRUE, files |-> <<>>]
    /\ handles = <<>>
    /\ pending = Idle
    /\ calls = 0
    /\ last = [op |-> "none"]
    /\ threads = [t \in Threads |-> Idle]
    /\ locks = <<>>
    /\ puts = [completed |-> {}, raised |-> {}, last |-> <<>>]
    /\ disk = <<>>

(* sync_wrapper, lines 64 to 70, and get up to line 31: the key, and *)
(* whether its file exists                                           *)
ThreadCall(t, x, expiry) ==
    /\ threads[t] = Idle
    /\ \E call \in CallsOf(x) : \E key \in Keys(Cached, call.args, call.kwargs) :
           LET exists == key \in DOMAIN fs.files
           IN  /\ threads' = [threads EXCEPT ![t] =
                      [pc |-> IF exists THEN "get_lock" ELSE "compute",
                       x |-> x, key |-> key, expiry |-> expiry]]
               /\ last' = Returns(t, "exists", key, IF exists THEN "found" ELSE "miss", None)
    /\ UNCHANGED <<codec, binding, disk, shape, now, fs, handles, pending, calls, locks, puts>>

(* get, line 34: the lock is acquired *)
ThreadGetLock(t) ==
    /\ threads[t].pc = "get_lock"
    /\ LET key == threads[t].key
       IN  /\ Acquirable(locks, key)
           /\ locks' = Acquire(locks, key, t)
           /\ fs' = FileLock(fs, key)
           /\ last' = Returns(t, "acquire", key, "get", None)
    /\ threads' = [threads EXCEPT ![t].pc = "get_locked"]
    /\ UNCHANGED <<codec, binding, disk, shape, now, handles, pending, calls, puts>>

(* get, lines 36 to 50, and the release of the lock: with the file gone *)
(* since line 30, getmtime or open raises.                             *)
ThreadGetLocked(t) ==
    /\ threads[t].pc = "get_locked"
    /\ LET p == threads[t]
       IN  /\ locks' = Release(locks, p.key, t)
           /\ IF p.key \notin DOMAIN fs.files
              THEN /\ fs' = fs
                   /\ threads' = [threads EXCEPT ![t] = Idle]
                   /\ last' = Returns(t, "get", p.key, "raised", Error("FileNotFoundError"))
              ELSE LET got == Get(p.key, fs, p.expiry, now)
                   IN  /\ fs' = got.dir
                       /\ IF IsError(got.value)
                          THEN /\ threads' = [threads EXCEPT ![t] = Idle]
                               /\ last' = Returns(t, "get", p.key, "raised", got.value)
                          ELSE IF Miss(got.value)
                          THEN /\ threads' = [threads EXCEPT ![t].pc = "compute"]
                               /\ last' = Returns(t, "get", p.key, "miss", None)
                          ELSE /\ threads' = [threads EXCEPT ![t] = Idle]
                               /\ last' = Returns(t, "get", p.key, "returned", got.value)
    /\ UNCHANGED <<codec, binding, disk, shape, now, handles, pending, calls, puts>>

(* sync_wrapper, line 71: the function is invoked *)
ThreadCompute(t) ==
    /\ threads[t].pc = "compute"
    /\ calls < MaxCalls
    /\ calls' = calls + 1
    /\ \E value \in ThreadResults(threads[t].x, calls + 1) :
           /\ threads' = [threads EXCEPT ![t] =
                  [pc |-> "set_lock", x |-> @.x, key |-> @.key, value |-> value]]
           /\ last' = Returns(t, "compute", threads[t].key, "returned", value)
    /\ UNCHANGED <<codec, binding, disk, shape, now, fs, handles, pending, locks, puts>>

(* set, line 20: the lock is acquired *)
ThreadSetLock(t) ==
    /\ threads[t].pc = "set_lock"
    /\ LET p == threads[t]
       IN  /\ Acquirable(locks, p.key)
           /\ locks' = Acquire(locks, p.key, t)
           /\ fs' = FileLock(fs, p.key)
           /\ threads' = [threads EXCEPT ![t] =
                  [pc |-> "set_locked", key |-> p.key, value |-> p.value,
                   before |-> Entry(fs, p.key)]]
           /\ puts' = [puts EXCEPT !.last = (p.key :> p.value) @@ @]
           /\ last' = Returns(t, "acquire", p.key, "set", None)
    /\ UNCHANGED <<codec, binding, disk, shape, now, handles, pending, calls>>

(* set, line 21: open(path, 'wb') makes the file or empties it; with the *)
(* directory gone since line 20 it raises.                               *)
ThreadSetOpen(t) ==
    /\ threads[t].pc = "set_locked"
    /\ LET p == threads[t]
       IN  IF ~ fs.exists
           THEN /\ locks' = Release(locks, p.key, t)
                /\ fs' = fs
                /\ threads' = [threads EXCEPT ![t] = Idle]
                /\ last' = Returns(t, "open", p.key, "raised", Error("FileNotFoundError"))
           ELSE LET ino == IF p.key \in DOMAIN fs.files THEN fs.files[p.key].ino
                           ELSE FreshIno
                IN  /\ fs' = [fs EXCEPT !.files =
                           (p.key :> [content |-> Truncated, mtime |-> now, ino |-> ino]) @@ @]
                    /\ threads' = [threads EXCEPT ![t] =
                           [pc |-> "set_opened", key |-> p.key, value |-> p.value,
                            before |-> p.before, ino |-> ino]]
                    /\ last' = Returns(t, "open", p.key, "opened", None)
                    /\ UNCHANGED locks
    /\ UNCHANGED <<codec, binding, disk, shape, now, handles, pending, calls, puts>>

(* set, line 22 and the end of the with statement: serialize(value) is  *)
(* written to the file that was opened, the file is closed and the lock *)
(* released; when serialize raises, nothing is written.                 *)
ThreadSetWrite(t) ==
    /\ threads[t].pc = "set_opened"
    /\ LET p == threads[t]
       IN  /\ locks' = Release(locks, p.key, t)
           /\ threads' = [threads EXCEPT ![t] = Idle]
           /\ IF SerializeRaises(p.value)
              THEN /\ fs' = fs
                   /\ last' = Returns(t, "write", p.key, "raised", Error("PicklingError"))
                   /\ puts' = [puts EXCEPT !.raised = @ \cup {p.key}]
              ELSE /\ \E wire \in Serialize(p.value) :
                          fs' = IF p.key \in DOMAIN fs.files /\ fs.files[p.key].ino = p.ino
                                THEN [fs EXCEPT !.files[p.key] =
                                         [content |-> wire, mtime |-> now, ino |-> p.ino]]
                                ELSE fs
                   /\ puts' = [puts EXCEPT !.completed = @ \cup {<<p.key, p.value>>}]
                   /\ last' = Returns(t, "write", p.key, "returned", p.value)
    /\ UNCHANGED <<codec, binding, disk, shape, now, handles, pending, calls>>

(* flush, line 89: os.listdir *)
ThreadFlush(t, expiry) ==
    /\ threads[t] = Idle
    /\ IF ~ fs.exists
       THEN /\ last' = Returns(t, "list", None, "raised", Error("FileNotFoundError"))
            /\ UNCHANGED threads
       ELSE \E listing \in Orders(DOMAIN fs.files) :
                IF Len(listing) = 0
                THEN /\ last' = Returns(t, "list", None, "returned", None)
                     /\ UNCHANGED threads
                ELSE /\ last' = Returns(t, "list", None, "listed", None)
                     /\ threads' = [threads EXCEPT ![t] =
                            [pc |-> "flush_lock", listing |-> listing, expiry |-> expiry]]
    /\ UNCHANGED <<codec, binding, disk, shape, now, fs, handles, pending, calls, locks, puts>>

(* flush, line 96: the lock of the next entry listed is acquired *)
ThreadFlushLock(t) ==
    /\ threads[t].pc = "flush_lock"
    /\ LET key == Head(threads[t].listing)
       IN  /\ Acquirable(locks, key)
           /\ locks' = Acquire(locks, key, t)
           /\ fs' = FileLock(fs, key)
           /\ last' = Returns(t, "acquire", key, "flush", None)
    /\ threads' = [threads EXCEPT ![t].pc = "flush_locked"]
    /\ UNCHANGED <<codec, binding, disk, shape, now, handles, pending, calls, puts>>

(* flush, lines 98 to 103, and the release of the lock: with the file  *)
(* gone since line 89, getmtime raises.                                *)
ThreadFlushLocked(t) ==
    /\ threads[t].pc = "flush_locked"
    /\ LET p == threads[t]
           key == Head(p.listing)
           flushed == IF key \in DOMAIN fs.files
                      THEN FlushEntries(<<key>>, fs, p.expiry, now)
                      ELSE [error |-> Error("FileNotFoundError"), dir |-> fs]
       IN  /\ locks' = Release(locks, key, t)
           /\ fs' = flushed.dir
           /\ IF flushed.error # None
              THEN /\ threads' = [threads EXCEPT ![t] = Idle]
                   /\ last' = Returns(t, "flush", key, "raised", flushed.error)
              ELSE IF Len(p.listing) = 1
              THEN /\ threads' = [threads EXCEPT ![t] = Idle]
                   /\ last' = Returns(t, "flush", key, "returned", None)
              ELSE /\ threads' = [threads EXCEPT ![t] =
                          [pc |-> "flush_lock", listing |-> Tail(p.listing),
                           expiry |-> p.expiry]]
                   /\ last' = Returns(t, "flush", key, "flushing", None)
    /\ UNCHANGED <<codec, binding, disk, shape, now, handles, pending, calls, puts>>

(* delete: shutil.rmtree removes the entries and the lock files, held or *)
(* not, and the directory.                                               *)
ThreadDelete(t) ==
    /\ threads[t] = Idle
    /\ fs' = Delete(fs)
    /\ locks' = <<>>
    /\ last' = Returns(t, "delete", None, "returned", None)
    /\ UNCHANGED <<codec, binding, disk, shape, now, handles, pending, calls, threads, puts>>

(* clear, line 80 *)
ThreadClear(t) ==
    /\ threads[t] = Idle
    /\ fs' = Delete(fs)
    /\ locks' = <<>>
    /\ threads' = [threads EXCEPT ![t] = [pc |-> "makedirs"]]
    /\ last' = Returns(t, "delete", None, "clearing", None)
    /\ UNCHANGED <<codec, binding, disk, shape, now, handles, pending, calls, puts>>

(* clear, line 83 *)
ThreadMakedirs(t) ==
    /\ threads[t].pc = "makedirs"
    /\ fs' = [fs EXCEPT !.exists = TRUE]
    /\ threads' = [threads EXCEPT ![t] = Idle]
    /\ last' = Returns(t, "makedirs", None, "returned", None)
    /\ UNCHANGED <<codec, binding, disk, shape, now, handles, pending, calls, locks, puts>>

(* Callers of one wrapped function *)
NextCallers ==
    \/ \E t \in Threads, x \in SharedArguments, expiry \in ThreadExpiries :
           ThreadCall(t, x, expiry)
    \/ \E t \in Threads : ThreadGetLock(t)
    \/ \E t \in Threads : ThreadGetLocked(t)
    \/ \E t \in Threads : ThreadCompute(t)
    \/ \E t \in Threads : ThreadSetLock(t)
    \/ \E t \in Threads : ThreadSetOpen(t)
    \/ \E t \in Threads : ThreadSetWrite(t)
    \/ Tick

SpecCallers == InitThreads /\ [][NextCallers]_vars

(* Callers of the function and of flush, clear and delete *)
NextThreads ==
    \/ NextCallers
    \/ \E t \in Threads, expiry \in ThreadExpiries : ThreadFlush(t, expiry)
    \/ \E t \in Threads : ThreadFlushLock(t)
    \/ \E t \in Threads : ThreadFlushLocked(t)
    \/ \E t \in Threads : ThreadDelete(t)
    \/ \E t \in Threads : ThreadClear(t)
    \/ \E t \in Threads : ThreadMakedirs(t)

SpecThreads == InitThreads /\ [][NextThreads]_vars

----------------------------------------------------------------------------
(* persist_cache.py: the directory of a cache, named or not, and the    *)
(* functions delete, clear and flush of the module, which are given a   *)
(* name or a callable. A callable is its __qualname__; the wrapper has  *)
(* the __qualname__ of the function it wraps (functools.wraps).         *)

Function(qualname) == [qualname |-> Str(qualname)]

(* caching.shorthash: as hash, with xxh3_64 *)
Shorthash(data) == {[xxh3_64 |-> wire] : wire \in Serialize(data)}

(* f'.persist_cache/{caching.shorthash(name)}' *)
DefaultDir(name) == {[persist_cache |-> h] : h \in Shorthash(name)}

(* decorator, lines 40 to 43 *)
DecoratorDir(name, dir, func) ==
    IF dir = None
    THEN DefaultDir(IF name # None THEN name ELSE func.qualname)
    ELSE {dir}

NameF == <<102>>
NameG == <<103>>
NameN == <<110>>
NameD == <<100>>

(* Every callable taken for the function f *)
StandaloneDirOfF(function_or_name) ==
    DefaultDir(IF IsStr(function_or_name) THEN function_or_name ELSE Str(NameF))

(* delete, clear and flush, lines 187, 196 and 206 *)
StandaloneDir(function_or_name) ==
    DefaultDir(IF IsStr(function_or_name) THEN function_or_name
               ELSE function_or_name.qualname)

Functions == {Function(NameF), Function(NameG)}
CacheNames == {None, Str(NameN), Str(NameF)}
CacheDirs == {None, Str(NameD)}
Targets == Functions \cup (CacheNames \ {None})
FlushExpiries == {PyInt(0)}
NamedHandles == {"h1"}

Paths ==
    UNION {DecoratorDir(name, dir, func) :
               name \in CacheNames, dir \in CacheDirs, func \in Functions}

(* A directory with an entry for f(1) that an earlier run has left *)
Earlier ==
    LET call == CHOOSE c \in CallsOf(PyInt(1)) : TRUE
        key == CHOOSE k \in Keys(Cached, call.args, call.kwargs) : TRUE
    IN  CHOOSE dir \in Set(key, Result(PyInt(1), 0), NoDirectory, 0) : TRUE

InitNames ==
    /\ codec = Idle
    /\ binding = Idle
    /\ shape = "sync"
    /\ now = 0
    /\ fs = NoDirectory
    /\ handles = [h \in Handles |-> NoHandle]
    /\ pending = Idle
    /\ calls = 0
    /\ last = [op |-> "none"]
    /\ threads = <<>>
    /\ locks = <<>>
    /\ puts = <<>>
    /\ disk \in {[path \in Paths |-> NoDirectory], [path \in Paths |-> Earlier]}

(* decorator, lines 36 to 47: cache(name, dir)(func) *)
NamedDecorator(h, func, name, dir) ==
    /\ ~ handles[h].constructed
    /\ \E path \in DecoratorDir(name, dir, func) :
           /\ handles' = [handles EXCEPT ![h] =
                  [constructed |-> TRUE, expiry |-> None, func |-> func, name |-> name,
                   given |-> dir, dir |-> path]]
           /\ disk' = [disk EXCEPT ![path].exists = TRUE]
           /\ last' = [op |-> "cache", h |-> h, dir |-> path]
    /\ UNCHANGED <<codec, binding, shared, shape, now, fs, pending, calls>>

(* sync_wrapper of a cache with its own directory *)
NamedWrapper(h, x) ==
    /\ handles[h].constructed
    /\ \E call \in CallsOf(x) : \E key \in Keys(Cached, call.args, call.kwargs) :
           LET path == handles[h].dir
               age == Age(disk[path], key, now)
               got == Get(key, disk[path], None, now)
           IN  IF IsError(got.value)
               THEN /\ disk' = [disk EXCEPT ![path] = got.dir]
                    /\ last' = Step("call", TRUE, h, key, None, age, "raised",
                                    got.value, 0, FALSE)
                    /\ UNCHANGED calls
               ELSE IF Miss(got.value)
               THEN /\ calls < MaxCalls
                    /\ \E dir \in Set(key, Result(x, calls + 1), got.dir, now) :
                           disk' = [disk EXCEPT ![path] = dir]
                    /\ calls' = calls + 1
                    /\ last' = Step("call", TRUE, h, key, None, age, "returned",
                                    Result(x, calls + 1), 1, TRUE)
               ELSE /\ disk' = [disk EXCEPT ![path] = got.dir]
                    /\ last' = Step("call", TRUE, h, key, None, age, "returned",
                                    got.value, 0, FALSE)
                    /\ UNCHANGED calls
    /\ UNCHANGED <<codec, binding, shared, shape, now, fs, handles, pending>>

Standalone(op, function_or_name, path, error) ==
    [op |-> op, target |-> function_or_name, dir |-> path, entries |-> disk[path].files,
     outcome |-> IF error = None THEN "returned" ELSE "raised"]

(* delete, lines 181 to 188 *)
StandaloneDelete(function_or_name) ==
    /\ \E path \in StandaloneDir(function_or_name) :
           /\ path \in Paths
           /\ disk' = [disk EXCEPT ![path] = Delete(@)]
           /\ last' = Standalone("delete", function_or_name, path, None)
    /\ UNCHANGED <<codec, binding, shared, shape, now, fs, handles, pending, calls>>

(* clear, lines 190 to 197 *)
StandaloneClear(function_or_name) ==
    /\ \E path \in StandaloneDir(function_or_name) :
           /\ path \in Paths
           /\ disk' = [disk EXCEPT ![path] = Clear(@)]
           /\ last' = Standalone("clear", function_or_name, path, None)
    /\ UNCHANGED <<codec, binding, shared, shape, now, fs, handles, pending, calls>>

(* flush, lines 199 to 207 *)
StandaloneFlush(function_or_name, expiry) ==
    /\ \E path \in StandaloneDir(function_or_name) :
           /\ path \in Paths
           /\ \E listing \in Orders(DOMAIN disk[path].files) :
                  LET flushed == Flush(disk[path], expiry, now, listing)
                  IN  /\ disk' = [disk EXCEPT ![path] = flushed.dir]
                      /\ last' = [Standalone("flush", function_or_name, path, flushed.error)
                                     EXCEPT !.entries = [expiry |-> expiry, listing |-> listing]]
    /\ UNCHANGED <<codec, binding, shared, shape, now, fs, handles, pending, calls>>

NextNames ==
    \/ \E h \in NamedHandles, func \in Functions, name \in CacheNames, dir \in CacheDirs :
           NamedDecorator(h, func, name, dir)
    \/ \E h \in NamedHandles, x \in SharedArguments : NamedWrapper(h, x)
    \/ \E target \in Targets : StandaloneDelete(target)
    \/ \E target \in Targets : StandaloneClear(target)
    \/ \E target \in Targets, expiry \in FlushExpiries : StandaloneFlush(target, expiry)
    \/ Tick

SpecNames == InitNames /\ [][NextNames]_vars

----------------------------------------------------------------------------
(* The words of the properties. An entry is expired under an expiry when *)
(* its age, the time since it was last written, exceeds the expiry.      *)

Seconds(expiry) == IF Is(expiry, "timedelta") THEN expiry.timedelta ELSE expiry.int[2]

Exceeds(age, expiry) == expiry # None /\ age > Seconds(expiry)

Unexpired(dir, key, expiry, t) ==
    key \in DOMAIN dir.files /\ ~ Exceeds(t - dir.files[key].mtime, expiry)

(* The step is one in which a wrapper looks its key up. *)
Looks == last'.op \in {"call", "await", "next"} /\ last'.looked

(* C1: a call of the wrapper looks the key up first: with an unexpired   *)
(* entry it returns the decoded stored value and does not invoke the     *)
(* function; otherwise it invokes the function once, stores the result   *)
(* with set and returns it. So of two calls one after the other through  *)
(* one wrapper with the same canonical arguments, the second returns     *)
(* what the first returned and invokes nothing.                          *)
C1_GetOrCompute ==
    [][Looks =>
        LET l == last'
        IN  /\ l.outcome = "returned"
            /\ IF Unexpired(fs, l.key, l.expiry, now)
               THEN /\ l.value = Deserialize(fs.files[l.key].content)
                    /\ calls' = calls
                    /\ ~ last'.stored
               ELSE /\ calls' = calls + 1
                    /\ last'.stored
                    /\ l.key \in DOMAIN fs'.files
                    /\ fs'.files[l.key].content \in Serialize(l.value)
            /\ (last.op = "call" /\ last.outcome = "returned" /\ last.h = l.h
                    /\ last.key = l.key)
                  => l.value = last.value /\ calls' = calls
      ]_vars

(* C1 again, for the calls of wrappers whose expiry is None or a number *)
(* of seconds                                                          *)
C1_GetOrComputeInSeconds ==
    [][(Looks /\ ~ Is(last'.expiry, "timedelta")) =>
        LET l == last'
        IN  /\ l.outcome = "returned"
            /\ IF Unexpired(fs, l.key, l.expiry, now)
               THEN /\ l.value = Deserialize(fs.files[l.key].content)
                    /\ calls' = calls
                    /\ ~ last'.stored
               ELSE /\ calls' = calls + 1
                    /\ last'.stored
                    /\ l.key \in DOMAIN fs'.files
                    /\ fs'.files[l.key].content \in Serialize(l.value)
            /\ (last.op = "call" /\ last.outcome = "returned" /\ last.h = l.h
                    /\ last.key = l.key)
                  => l.value = last.value /\ calls' = calls
      ]_vars

(* C3: an entry whose age exceeds the expiry in force at the lookup is   *)
(* treated as absent: get removes it and returns NOT_IN_CACHE, and the   *)
(* wrapper invokes the function, stores the new result and returns it.   *)
C3_ExpiredIsAbsent ==
    [][(Looks /\ last'.key \in DOMAIN fs.files
              /\ Exceeds(now - fs.files[last'.key].mtime, last'.expiry)) =>
        LET l == last'
            got == Get(l.key, fs, l.expiry, now)
        IN  /\ got.value = NOT_IN_CACHE
            /\ l.key \notin DOMAIN got.dir.files
            /\ l.outcome = "returned"
            /\ l.invoked = 1
            /\ calls' = calls + 1
            /\ l.value # Deserialize(fs.files[l.key].content)
            /\ l.key \in DOMAIN fs'.files
            /\ fs'.files[l.key].content \in Serialize(l.value)
            /\ fs'.files[l.key].mtime = now
      ]_vars

(* A call has come upon an entry older than its timedelta and recomputed. *)
C3_Recomputed ==
    /\ last.op = "call"
    /\ last.looked
    /\ Is(last.expiry, "timedelta")
    /\ last.age > Seconds(last.expiry)
    /\ last.invoked = 1
    /\ last.stored

(* C4: with an expiry set, in seconds or as a timedelta, and an entry    *)
(* younger than it, get returns the decoded stored value and leaves the  *)
(* entry in place.                                                       *)
C4_UnexpiredIsReturned ==
    [][(Looks /\ last'.expiry # None /\ last'.key \in DOMAIN fs.files
              /\ now - fs.files[last'.key].mtime < Seconds(last'.expiry)) =>
        LET l == last'
            got == Get(l.key, fs, l.expiry, now)
        IN  /\ got.value = Deserialize(fs.files[l.key].content)
            /\ Entry(got.dir, l.key) = fs.files[l.key]
            /\ l.outcome = "returned"
            /\ l.value = got.value
            /\ Entry(fs', l.key) = fs.files[l.key]
      ]_vars

(* C4 again, for an expiry in seconds *)
C4_UnexpiredIsReturnedInSeconds ==
    [][(Looks /\ Is(last'.expiry, "int") /\ last'.key \in DOMAIN fs.files
              /\ now - fs.files[last'.key].mtime < Seconds(last'.expiry)) =>
        LET l == last'
            got == Get(l.key, fs, l.expiry, now)
        IN  /\ got.value = Deserialize(fs.files[l.key].content)
            /\ Entry(got.dir, l.key) = fs.files[l.key]
            /\ l.outcome = "returned"
            /\ l.value = got.value
            /\ Entry(fs', l.key) = fs.files[l.key]
      ]_vars

(* C5: clear is delete followed by the making of the directory: after    *)
(* clear_cache the directory exists and holds no entry, and the call     *)
(* that comes next, whatever its key, is a miss: it invokes the function *)
(* and stores and returns a result of that new invocation.               *)
C5_ClearThenMiss ==
    [][/\ last'.op = "clear" =>
            /\ last'.outcome = "returned"
            /\ fs' = [Delete(fs) EXCEPT !.exists = TRUE]
            /\ fs'.exists
            /\ DOMAIN fs'.files = {}
       /\ (last.op = "clear" /\ Looks) =>
            /\ last'.outcome = "returned"
            /\ last'.age = -1
            /\ last'.invoked = 1
            /\ calls' = calls + 1
            /\ last'.value.tuple[2] = Float(calls')
            /\ DOMAIN fs'.files = {last'.key}
            /\ fs'.files[last'.key].content \in Serialize(last'.value)
      ]_vars

(* clear_cache has emptied a directory of two entries. *)
C5_Cleared ==
    /\ last.op = "clear"
    /\ last.entries = 2
    /\ fs.exists
    /\ DOMAIN fs.files = {}

(* C6: delete removes the directory with all its contents and can be     *)
(* repeated: it raises nothing when the directory is absent, and after   *)
(* it, once or again, the directory does not exist.                      *)
C6_DeleteIsIdempotent ==
    [][last'.op = "delete" =>
        /\ last'.outcome = "returned"
        /\ ~ fs'.exists
        /\ DOMAIN fs'.files = {}
        /\ Delete(fs') = fs'
      ]_vars

(* delete_cache has been called on a directory that was already deleted. *)
C6_DeletedAgain ==
    /\ last.op = "delete"
    /\ ~ last.existed
    /\ last.outcome = "returned"
    /\ ~ fs.exists
    /\ calls > 0

(* C8: entries are on disk only and outlive the wrapper that wrote them: *)
(* a call through another wrapper on the same directory with the same    *)
(* canonical arguments hits an unexpired entry and invokes nothing.      *)
C8_EntriesOutliveHandles ==
    [][(Looks /\ Unexpired(fs, last'.key, last'.expiry, now)
              /\ fs.files[last'.key].by # last'.h) =>
        /\ last'.outcome = "returned"
        /\ last'.value = Deserialize(fs.files[last'.key].content)
        /\ last'.invoked = 0
        /\ calls' = calls
      ]_vars

(* C8 again, for the calls of wrappers whose expiry is None or a number  *)
(* of seconds                                                            *)
C8_EntriesOutliveHandlesInSeconds ==
    [][(Looks /\ ~ Is(last'.expiry, "timedelta")
              /\ Unexpired(fs, last'.key, last'.expiry, now)
              /\ fs.files[last'.key].by # last'.h) =>
        /\ last'.outcome = "returned"
        /\ last'.value = Deserialize(fs.files[last'.key].content)
        /\ last'.invoked = 0
        /\ calls' = calls
      ]_vars

(* C9: a call of the generator wrapper whose lookup returns a stored     *)
(* list gives the items of that list one by one in their order, and the  *)
(* producer is never run.                                                *)
C9_Replay ==
    [][/\ (Looks /\ Is(Get(last'.key, fs, last'.expiry, now).value, "list")) =>
            LET stored == Get(last'.key, fs, last'.expiry, now).value.list
            IN  /\ last'.invoked = 0
                /\ calls' = calls
                /\ ~ last'.stored
                /\ IF Len(stored) = 0
                   THEN last'.outcome = "stopped" /\ pending' = Idle
                   ELSE /\ last'.outcome = "yielded"
                        /\ last'.value = SubSeq(stored, 1, 1)
                        /\ pending'.pc = "cache"
                        /\ pending'.items = stored
       /\ (pending.pc = "cache" /\ last'.op = "next") =>
            LET n == Len(pending.value)
            IN  /\ calls' = calls
                /\ ~ last'.stored
                /\ fs' = fs
                /\ IF n < Len(pending.items)
                   THEN /\ last'.outcome = "yielded"
                        /\ last'.value = SubSeq(pending.items, 1, n + 1)
                        /\ pending'.pc = "cache"
                        /\ pending'.items = pending.items
                   ELSE /\ last'.outcome = "stopped"
                        /\ last'.value = pending.items
                        /\ pending' = Idle
      ]_vars

(* A second call for 2 has given 0 and 1 from the cache. *)
C9_Replayed ==
    /\ pending.pc = "cache"
    /\ pending.items = <<PyInt(0), PyInt(1)>>
    /\ last.op = "next"
    /\ last.outcome = "yielded"
    /\ last.value = <<PyInt(0), PyInt(1)>>
    /\ calls = 1

(* C10: on a miss of the generator wrapper each item is given to the     *)
(* caller as the producer yields it, and appended; set is called once,   *)
(* only when the producer is exhausted, with all the items in the order  *)
(* they were produced; when the caller stops before that, nothing is     *)
(* written.                                                              *)
C10_StoredWhenExhausted ==
    [][/\ (pending.pc = "start" /\ pending'.pc = "producer") =>
            /\ pending'.items = Items(pending.x)
            /\ last'.outcome = "yielded"
            /\ last'.value = SubSeq(pending'.items, 1, 1)
            /\ pending'.value = last'.value
            /\ last'.key \notin DOMAIN fs'.files
            /\ ~ last'.stored
       /\ (pending.pc = "producer" /\ last'.op = "next") =>
            LET n == Len(pending.value)
            IN  IF n < Len(pending.items)
                THEN /\ last'.outcome = "yielded"
                     /\ last'.value = SubSeq(pending.items, 1, n + 1)
                     /\ pending'.pc = "producer"
                     /\ pending'.value = last'.value
                     /\ fs' = fs
                     /\ ~ last'.stored
                ELSE /\ last'.outcome = "stopped"
                     /\ last'.value = pending.items
                     /\ pending' = Idle
                     /\ last'.stored
                     /\ last'.key \in DOMAIN fs'.files
                     /\ fs'.files[last'.key].content \in Serialize(List(pending.items))
       /\ last'.op = "close" => fs' = fs
       /\ \A key \in DOMAIN fs'.files :
            Entry(fs, key) # fs'.files[key] =>
                /\ last'.op = "next"
                /\ last'.outcome = "stopped"
                /\ last'.stored
                /\ last'.key = key
      ]_vars

(* The producer for 2 is exhausted and the list of 0 and 1 is stored. *)
C10_Stored ==
    /\ last.op = "next"
    /\ last.outcome = "stopped"
    /\ last.stored
    /\ last.value = <<PyInt(0), PyInt(1)>>
    /\ last.key \in DOMAIN fs.files
    /\ Deserialize(fs.files[last.key].content) = List(<<PyInt(0), PyInt(1)>>)


----------------------------------------------------------------------------
(* Concurrent callers *)

(* The caller is between acquiring and releasing the lock of the entry *)
(* of key: in get's expiry check and read, in set's write or in        *)
(* flush's check and removal.                                          *)
InLockedSection(t, key) ==
    \/ threads[t].pc \in {"get_locked", "set_locked", "set_opened"} /\ threads[t].key = key
    \/ threads[t].pc = "flush_locked" /\ Head(threads[t].listing) = key

EntryKeys == UNION {Keys(Cached, <<x>>, <<>>) : x \in SharedArguments}

(* C11: however calls of the wrapper, flush, clear and delete by several *)
(* threads or processes interleave, at most one of them is inside the    *)
(* locked section of an entry path at a time.                            *)
C11_OneInLockedSection ==
    \A key \in EntryKeys : Cardinality({t \in Threads : InLockedSection(t, key)}) <= 1

(* The step is the locked section of a get by a concurrent caller. *)
Gets == last'.op = "get"

(* get comes to line 49 and reads the file: the entry is there and the *)
(* expiry check, if there is one, finds it fresh.                      *)
Reads(key, expiry) ==
    /\ key \in DOMAIN fs.files
    /\ expiry # None => Expired(expiry, fs.files[key].mtime, now) = "fresh"

(* C12: however the sets and gets of one key interleave, a get that      *)
(* returns a value returns the value some finished set was given, and no *)
(* get decodes a file that is empty, truncated or partly written.        *)
C12_ReadsWholeValues ==
    [][Gets =>
        LET key == last'.key
        IN  /\ last'.outcome = "returned" => <<key, last'.value>> \in puts.completed
            /\ Reads(key, threads[last'.t].expiry) => fs.files[key].content # Truncated
      ]_vars

(* C12 again, but for the files left empty by a set that raised: no get *)
(* reads a file between its opening and its writing by another caller.  *)
C12_ReadsNoFileBeingWritten ==
    [][Gets =>
        LET key == last'.key
        IN  /\ last'.outcome = "returned" => <<key, last'.value>> \in puts.completed
            /\ (Reads(key, threads[last'.t].expiry) /\ fs.files[key].content = Truncated)
                  => /\ key \in puts.raised
                     /\ \A t \in Threads : threads[t].pc # "set_opened"
      ]_vars

(* No caller is in a call for key. *)
Quiet(key) == \A t \in Threads : threads[t] = Idle \/ threads[t].key # key

(* C13: concurrent misses of one key are not deduplicated: each caller   *)
(* invokes the function and calls set, and once they have finished the   *)
(* stored entry is the value given to the set that acquired the lock     *)
(* last.                                                                 *)
C13_LastPutWins ==
    \A key \in DOMAIN puts.last :
        (Quiet(key) /\ key \in DOMAIN fs.files)
            => Deserialize(fs.files[key].content) = puts.last[key]

(* C13 again, when the set that acquired the lock last has not raised *)
C13_LastCompletedPutWins ==
    \A key \in DOMAIN puts.last :
        (Quiet(key) /\ key \in DOMAIN fs.files /\ ~ SerializeRaises(puts.last[key]))
            => Deserialize(fs.files[key].content) = puts.last[key]

(* Two callers have both missed and both invoked the function, and both *)
(* have finished their set.                                             *)
C13_BothComputed ==
    /\ calls = 2
    /\ \A t \in Threads : threads[t] = Idle
    /\ Cardinality(puts.completed) = 2
    /\ last.op = "write"

(* C14: when set cannot encode the value the error goes to the caller   *)
(* and the entry of the key is as it was before the set: absent if it   *)
(* was absent, with its value if it had one.                            *)
C14_FailedPutLeavesEntry ==
    [][\A t \in Threads :
          (threads[t].pc = "set_opened" /\ SerializeRaises(threads[t].value)
                /\ threads'[t] = Idle) =>
            /\ last'.outcome = "raised"
            /\ Entry(fs', threads[t].key) = threads[t].before
      ]_vars

(* C15: when the bytes of an unexpired entry do not parse, get and the   *)
(* wrapper raise the decode error: the function is not invoked and the   *)
(* entry is neither overwritten nor deleted.                             *)
C15_DecodeErrorPropagates ==
    [][(Gets /\ Unexpired(fs, last'.key, threads[last'.t].expiry, now)
             /\ IsError(Deserialize(fs.files[last'.key].content))) =>
        /\ last'.outcome = "raised"
        /\ last'.value = Deserialize(fs.files[last'.key].content)
        /\ threads'[last'.t] = Idle
        /\ calls' = calls
        /\ Entry(fs', last'.key) = fs.files[last'.key]
      ]_vars

(* C15 again, for the gets whose expiry is None or a number of seconds *)
C15_DecodeErrorPropagatesInSeconds ==
    [][(Gets /\ ~ Is(threads[last'.t].expiry, "timedelta")
             /\ Unexpired(fs, last'.key, threads[last'.t].expiry, now)
             /\ IsError(Deserialize(fs.files[last'.key].content))) =>
        /\ last'.outcome = "raised"
        /\ last'.value = Deserialize(fs.files[last'.key].content)
        /\ threads'[last'.t] = Idle
        /\ calls' = calls
        /\ Entry(fs', last'.key) = fs.files[last'.key]
      ]_vars

----------------------------------------------------------------------------
(* flush and set_expiry *)

(* The entries of dir whose age does not exceed expiry, as they are *)
Kept(dir, expiry, t) ==
    [key \in {k \in DOMAIN dir.files : ~ Exceeds(t - dir.files[k].mtime, expiry)} |->
        dir.files[key]]

(* C16: flush removes the entry files whose age exceeds the expiry and   *)
(* no other: the entries that are not expired keep their content and     *)
(* their modification time.                                              *)
C16_FlushRemovesExpired ==
    [][last'.op = "flush" => fs'.files = Kept(fs, last'.expiry, now)]_vars

(* C16 again, for an expiry that is None or a number of seconds *)
C16_FlushRemovesExpiredInSeconds ==
    [][(last'.op = "flush" /\ ~ Is(last'.expiry, "timedelta")) =>
            fs'.files = Kept(fs, last'.expiry, now)]_vars

(* C18: set_expiry(d) replaces the expiry of the wrapper: the lookups    *)
(* and flush_cache that come after it through that wrapper use d, also   *)
(* on the entries written before it, so that an entry older than d is    *)
(* recomputed by the next call; nothing else changes the expiry.         *)
C18_SetExpiryReplaces ==
    [][/\ last'.op = "set_expiry" =>
            /\ handles'[last'.h].expiry = last'.value
            /\ fs' = fs
       /\ \A h \in Handles :
            (handles[h].constructed /\ handles'[h] # handles[h]) =>
                last'.op = "set_expiry" /\ last'.h = h
       /\ (last.op = "set_expiry" /\ Looks /\ last'.h = last.h) =>
            /\ last'.expiry = last.value
            /\ (last'.key \in DOMAIN fs.files
                    /\ Exceeds(now - fs.files[last'.key].mtime, last.value)) =>
                  /\ last'.outcome = "returned"
                  /\ last'.invoked = 1
                  /\ last'.stored
                  /\ fs'.files[last'.key].mtime = now
       /\ (last.op = "set_expiry" /\ last'.op = "flush" /\ last'.h = last.h) =>
            /\ last'.expiry = last.value
            /\ \E listing \in Orders(DOMAIN fs.files) :
                   fs' = Flush(fs, last.value, now, listing).dir
       /\ (Looks \/ last'.op = "flush") => last'.expiry = handles[last'.h].expiry
      ]_vars

(* The expiry of a wrapper has been set to one second over an entry *)
(* written two seconds before.                                      *)
C18_ExpirySetOverOldEntry ==
    /\ last.op = "set_expiry"
    /\ last.value = PyInt(1)
    /\ handles[last.h].expiry = PyInt(1)
    /\ \E key \in DOMAIN fs.files : now - fs.files[key].mtime > 1

----------------------------------------------------------------------------
(* Defaults and the order of keywords *)

(* The mapping the logical arguments stand for: each declared parameter  *)
(* in the order of the declaration with the value given for it or, when  *)
(* none is given, its default, the variadic tail as a tuple, then the    *)
(* extra keywords.                                                       *)
RECURSIVE DeclaredFrom(_, _, _)
DeclaredFrom(parameters, logical, i) ==
    IF i > Len(parameters) THEN <<>>
    ELSE LET parameter == parameters[i]
             rest == DeclaredFrom(parameters, logical, i + 1)
         IN  IF parameter.kind = "VAR_KEYWORD" THEN rest
             ELSE IF parameter.kind = "VAR_POSITIONAL"
             THEN <<<<parameter.name, Tuple(logical.tail)>>>> \o rest
             ELSE <<<<parameter.name, IF logical.given[i] = Empty THEN parameter.default
                                      ELSE logical.given[i]>>>> \o rest

Declared(parameters, logical) == Dict(DeclaredFrom(parameters, logical, 1) \o logical.extra)

OfDeclared(call) ==
    /\ call.arguments = Declared(binding.func.parameters, binding.logical)
    /\ call.key \in Hash(Declared(binding.func.parameters, binding.logical))

(* C19: for f(a, b=2) the calls f(1), f(1, 2), f(a=1, b=2) and           *)
(* f(b=2, a=1) have one key; for any cached callable, a call that leaves *)
(* out a parameter with a default has the arguments and the key of the   *)
(* call that passes the default.                                         *)
C19_DefaultsFilledIn ==
    /\ binding.pc \in {"first", "done"} => OfDeclared(binding.first)
    /\ binding.pc = "done" => OfDeclared(binding.second)

(* C19 again, for the callables that are plain functions *)
C19_DefaultsFilledInOfFunctions ==
    ~ binding.func.is_method =>
        /\ binding.pc \in {"first", "done"} => OfDeclared(binding.first)
        /\ binding.pc = "done" => OfDeclared(binding.second)

(* C20: the key does not depend on the order of the keyword arguments of *)
(* a call, whether they name declared parameters or are absorbed by the  *)
(* variadic keywords.                                                    *)
C20_KeywordOrderIndependent ==
    binding.pc = "done" =>
        /\ binding.first.key = binding.second.key
        /\ Range(binding.first.arguments.dict) = Range(binding.second.arguments.dict)

(* C20 again, for the calls with at most one keyword that is not a *)
(* declared parameter                                              *)
C20_DeclaredKeywordOrderIndependent ==
    (binding.pc = "done" /\ Len(binding.logical.extra) <= 1) =>
        /\ binding.first.key = binding.second.key
        /\ Range(binding.first.arguments.dict) = Range(binding.second.arguments.dict)

----------------------------------------------------------------------------
(* Names *)

(* The name or callable is that of the wrapper: the name it was given, *)
(* or its callable when it was given neither a name nor a directory.   *)
Designates(function_or_name, h) ==
    /\ handles[h].constructed
    /\ handles[h].given = None
    /\ IF IsStr(function_or_name) THEN handles[h].name = function_or_name
       ELSE handles[h].name = None /\ handles[h].func.qualname = function_or_name.qualname

StandaloneStep == last'.op \in {"delete", "clear", "flush"}

(* C17: delete, clear and flush of the module, given a name or a         *)
(* callable, work on the directory of the wrapper constructed with that  *)
(* name or, with neither name nor directory, for that callable, and on   *)
(* no other; the call of the wrapper that follows such a clear finds no  *)
(* entry and recomputes.                                                 *)
C17_StandaloneResolves ==
    [][/\ StandaloneStep =>
            LET path == last'.dir
            IN  /\ \A h \in NamedHandles :
                       Designates(last'.target, h) => path = handles[h].dir
                /\ \A other \in Paths \ {path} : disk'[other] = disk[other]
                /\ last'.op = "delete" => disk'[path] = Delete(disk[path])
                /\ last'.op = "clear" =>
                       disk'[path].exists /\ DOMAIN disk'[path].files = {}
                /\ last'.op = "flush" =>
                       disk'[path].files = Kept(disk[path], last'.entries.expiry, now)
       /\ (last.op = "clear" /\ Looks /\ Designates(last.target, last'.h)) =>
            /\ last'.age = -1
            /\ last'.outcome = "returned"
            /\ last'.invoked = 1
            /\ calls' = calls + 1
            /\ last'.stored
      ]_vars

(* clear, given the wrapped callable, has emptied the directory of a *)
(* wrapper constructed with neither name nor directory, which held   *)
(* an entry.                                                         *)
C17_ClearedByCallable ==
    /\ last.op = "clear"
    /\ ~ IsStr(last.target)
    /\ \E h \in NamedHandles :
           /\ Designates(last.target, h)
           /\ handles[h].name = None
           /\ last.dir = handles[h].dir
           /\ DOMAIN disk[handles[h].dir].files = {}
    /\ DOMAIN last.entries # {}

----------------------------------------------------------------------------
(* The argument a wrapper flagged as a method leaves out: the first call *)
(* again, with another value in the first position.                      *)

Receivers == ArgValues \cup {Obj(1), Obj(2)}

ArgsReceiverCall ==
    /\ binding.pc = "first"
    /\ Len(binding.first.args) > 0
    /\ \E r \in Receivers :
       \E c \in Canonicalized(binding.func,
                              [args |-> <<r>> \o SubSeq(binding.first.args, 2,
                                                        Len(binding.first.args)),
                               kwargs |-> binding.first.kwargs]) :
           binding' = [binding EXCEPT !.pc = "done", !.second = c]
    /\ UNCHANGED <<codec, engine>>

ReceiverNext == ArgsFirstCall \/ ArgsReceiverCall

SpecReceiver == ArgsInit /\ [][ReceiverNext]_vars

----------------------------------------------------------------------------
(* caching.hash on its own: the key of the canonical arguments {x: v} is *)
(* derived twice, the second time from arguments equal to the first      *)
(* (a mapping equals any mapping with the same items, in whatever order  *)
(* they were inserted).                                                  *)

EqualValues(v) ==
    IF Is(v, "dict") THEN {Dict(o) : o \in Orders(Range(v.dict))} ELSE {v}

CanonicalArguments(v) == Dict(<<<<Str(NameX), v>>>>)

DeriveInit ==
    /\ Unused
    /\ codec = Idle
    /\ binding \in {[pc |-> "arguments", value |-> v, first |-> Idle, second |-> Idle] :
                        v \in CodecValues}

Derived(v) == {[value |-> v, key |-> key] : key \in Hash(CanonicalArguments(v))}

DeriveFirst ==
    /\ binding.pc = "arguments"
    /\ \E d \in Derived(binding.value) :
           binding' = [binding EXCEPT !.pc = "first", !.first = d]
    /\ UNCHANGED <<codec, engine>>

DeriveSecond ==
    /\ binding.pc = "first"
    /\ \E v \in EqualValues(binding.value) :
       \E d \in Derived(v) :
           binding' = [binding EXCEPT !.pc = "done", !.second = d]
    /\ UNCHANGED <<codec, engine>>

DeriveNext == DeriveFirst \/ DeriveSecond

SpecDerive == DeriveInit /\ [][DeriveNext]_vars

(* C22: the key is a function of the canonical arguments: equal          *)
(* arguments always have the same key, also when their values hold sets, *)
(* frozen sets or mappings whose iteration or insertion order differs.   *)
C22_KeyDeterministic ==
    binding.pc = "done" => binding.first.key = binding.second.key

(* No set or frozen set of two or more elements is among the parts of v *)
(* that are serialized one by one.                                      *)
RECURSIVE IteratedInOneOrder(_)
IteratedInOneOrder(v) ==
    IF DirectlyMsgpackable(v) THEN TRUE
    ELSE IF Is(v, "tuple") THEN \A i \in DOMAIN v.tuple : IteratedInOneOrder(v.tuple[i])
    ELSE IF Is(v, "set") THEN
        Cardinality(v.set) < 2 /\ \A d \in v.set : IteratedInOneOrder(d)
    ELSE IF Is(v, "frozenset") THEN
        Cardinality(v.frozenset) < 2 /\ \A d \in v.frozenset : IteratedInOneOrder(d)
    ELSE TRUE

(* The key is the same when the items of the mappings are in the same   *)
(* order and the value is serialized without iterating a set of two or  *)
(* more elements.                                                       *)
C22_KeyDeterministicInOneOrder ==
    (/\ binding.pc = "done"
     /\ binding.first.value = binding.second.value
     /\ IteratedInOneOrder(binding.value)) =>
        binding.first.key = binding.second.key

----------------------------------------------------------------------------
(* Strings and lists that look like the escaped forms *)

Signatures == STR_SIGNATURES \cup LISTED_SIGNATURES

(* A string that is a signature, starts with one, or starts as one does *)
ResemblesSignature(d) ==
    /\ Is(d, "str")
    /\ Len(d.str) > 0
    /\ \E s \in Signatures : d.str[1] = s[1]

(* C23: a string that starts with, or a list whose first element is,     *)
(* text resembling or equal to a signature comes back from the codec     *)
(* equal to the original; an empty list and a list whose first element   *)
(* is a string are read back as lists, never as a tuple, set or          *)
(* frozenset.                                                            *)
C23_LookalikesRoundTrip ==
    codec.pc = "done" =>
        /\ ResemblesSignature(codec.in) => codec.out = codec.in
        /\ Is(codec.in, "list") =>
            /\ (Len(codec.in.list) > 0 /\ ResemblesSignature(codec.in.list[1])) =>
                   codec.out = codec.in
            /\ (Len(codec.in.list) = 0 \/ Is(codec.in.list[1], "str")) =>
                   Is(codec.out, "list")

(* A list of the tuple signature and a string that starts with the bytes *)
(* signature has been through the codec.                                 *)
C23_ListOfSignatures ==
    /\ codec.pc = "done"
    /\ Is(codec.in, "list")
    /\ Len(codec.in.list) = 2
    /\ codec.in.list[1] = Str(TUPLE_SIGNATURE)
    /\ Is(codec.in.list[2], "str")
    /\ StartsWith(codec.in.list[2], BYTES_SIGNATURE)
    /\ Is(codec.out, "list")

----------------------------------------------------------------------------
(* Callers of one wrapped function on two keys, and of flush *)

KeyExpiries == {PyInt(0)}

NextKeys ==
    \/ \E t \in Threads, x \in CachedArguments : ThreadCall(t, x, None)
    \/ \E t \in Threads : ThreadGetLock(t)
    \/ \E t \in Threads : ThreadGetLocked(t)
    \/ \E t \in Threads : ThreadCompute(t)
    \/ \E t \in Threads : ThreadSetLock(t)
    \/ \E t \in Threads : ThreadSetOpen(t)
    \/ \E t \in Threads : ThreadSetWrite(t)
    \/ \E t \in Threads, expiry \in KeyExpiries : ThreadFlush(t, expiry)
    \/ \E t \in Threads : ThreadFlushLock(t)
    \/ \E t \in Threads : ThreadFlushLocked(t)

SpecKeys == InitThreads /\ [][NextKeys]_vars

(* The key whose lock a caller is about to acquire *)
Awaited(t) ==
    IF threads[t].pc \in {"get_lock", "set_lock"} THEN {threads[t].key}
    ELSE IF threads[t].pc = "flush_lock" THEN {Head(threads[t].listing)}
    ELSE {}

AcquireStep(t) == ThreadGetLock(t) \/ ThreadSetLock(t) \/ ThreadFlushLock(t)

(* C24: the locks are per entry: a caller about to lock the entry of a   *)
(* key can do so whenever no other caller is inside the locked section   *)
(* of that key, whatever locks are held for other keys.                  *)
C24_BlockedByOwnKeyOnly ==
    \A t \in Threads : \A key \in Awaited(t) :
        (\A u \in Threads \ {t} : ~ InLockedSection(u, key)) => ENABLED AcquireStep(t)

(* One caller is about to lock a key while another caller holds the lock *)
(* of the other key.                                                     *)
C24_OtherKeyLocked ==
    \E t, u \in Threads :
        /\ t # u
        /\ threads[t].pc = "get_lock"
        /\ threads[u].pc = "set_opened"
        /\ threads[t].key # threads[u].key

----------------------------------------------------------------------------
(* async_wrapper on an event loop: the caller t1 is a task of a loop     *)
(* that has another task, which yields to the loop again and again; the  *)
(* caller t2 calls the function from another process. A loop runs one    *)
(* task at a time, on one thread, until the task awaits or ends: the     *)
(* wrapper awaits the function (line 88) and nothing else, and           *)
(* caching.get and caching.set acquire their FileLock without awaiting.  *)

MaxBeats == 2

LoopTask == "t1"

(* The task is running on the thread of the loop: from the call to the *)
(* await of the function, and from its result to the return.           *)
OnLoop ==
    threads[LoopTask].pc \in {"get_lock", "get_locked", "set_lock", "set_locked", "set_opened"}

InitLoop ==
    /\ codec = Idle
    /\ binding = Idle
    /\ shape = "async"
    /\ now = 0
    /\ fs = [exists |-> TRUE, files |-> <<>>]
    /\ handles = <<>>
    /\ pending = [pc |-> "ready", beats |-> 0]
    /\ calls = 0
    /\ last = [op |-> "none"]
    /\ threads = [t \in Threads |-> Idle]
    /\ locks = <<>>
    /\ puts = [completed |-> {}, raised |-> {}, last |-> <<>>]
    /\ disk = <<>>

(* The other task of the loop runs up to its next await *)
Beat ==
    /\ ~ OnLoop
    /\ pending.beats < MaxBeats
    /\ pending' = [pending EXCEPT !.beats = @ + 1]
    /\ last' = [op |-> "beat"]
    /\ UNCHANGED <<codec, binding, disk, shared, shape, now, fs, handles, calls>>

NextLoop ==
    \/ \E t \in Threads, x \in SharedArguments : ThreadCall(t, x, None)
    \/ \E t \in Threads : ThreadGetLock(t)
    \/ \E t \in Threads : ThreadGetLocked(t)
    \/ \E t \in Threads : ThreadCompute(t)
    \/ \E t \in Threads : ThreadSetLock(t)
    \/ \E t \in Threads : ThreadSetOpen(t)
    \/ \E t \in Threads : ThreadSetWrite(t)
    \/ Beat

SpecLoop == InitLoop /\ [][NextLoop]_vars

WaitsForLock(t) == \E key \in Awaited(t) : ~ Acquirable(locks, key)

(* C25: the async wrapper gives up its loop both while it waits for the  *)
(* lock of the entry and while it awaits the function, so that the other *)
(* task of the loop can run during either wait; and at most one caller   *)
(* is inside the locked section of the entry.                            *)
C25_ReleasesControl ==
    /\ (/\ pending.beats < MaxBeats
        /\ threads[LoopTask].pc = "compute" \/ WaitsForLock(LoopTask)) => ENABLED Beat
    /\ \A key \in EntryKeys :
           Cardinality({t \in Threads : InLockedSection(t, key)}) <= 1

(* The same, of the await of the function only. *)
C25_ReleasesControlWhileAwaiting ==
    /\ (pending.beats < MaxBeats /\ threads[LoopTask].pc = "compute") => ENABLED Beat
    /\ \A key \in EntryKeys :
           Cardinality({t \in Threads : InLockedSection(t, key)}) <= 1

----------------------------------------------------------------------------
(* The wrappers of a function that can return anything, a value that is  *)
(* false in a condition included, or raise.                              *)

ResultHandles == {"h1"}
ResultArguments == {PyInt(0), PyInt(2)}

(* The exception of the function *)
Raised == Error("ValueError")

(* What the n-th invocation of the function can end in *)
Outcomes(x, n) == {Result(x, n), Raised} \cup FalsyResults

(* The directory had set been called whatever the invocation ended in *)
ComputedAndStored(key, r, dir, t) == Set(key, IF IsError(r) THEN None ELSE r, dir, t)

(* Lines 71 and 72, 88 and 89, 107 to 112: caching.set follows the     *)
(* invocation; an exception of the function leaves the wrapper before *)
(* it.                                                                *)
Computed(key, r, dir, t) == IF IsError(r) THEN {dir} ELSE Set(key, r, dir, t)

(* sync_wrapper *)
ResultWrapper(h, x) ==
    /\ shape = "sync"
    /\ handles[h].constructed
    /\ \E call \in CallsOf(x) : \E key \in Keys(Cached, call.args, call.kwargs) :
           LET expiry == handles[h].expiry
               age == Age(fs, key, now)
               got == Get(key, fs, expiry, now)
           IN  IF IsError(got.value)
               THEN /\ fs' = got.dir
                    /\ last' = Step("call", TRUE, h, key, expiry, age, "raised",
                                    got.value, 0, FALSE)
                    /\ UNCHANGED calls
               ELSE IF Miss(got.value)
               THEN /\ calls < MaxCalls
                    /\ calls' = calls + 1
                    /\ \E r \in Outcomes(x, calls + 1) :
                           /\ \E dir \in Computed(key, r, got.dir, now) :
                                  fs' = WrittenBy(dir, key, h)
                           /\ last' = Step("call", TRUE, h, key, expiry, age,
                                           IF IsError(r) THEN "raised" ELSE "returned",
                                           r, 1, ~ IsError(r))
               ELSE /\ fs' = got.dir
                    /\ last' = Step("call", TRUE, h, key, expiry, age, "returned",
                                    got.value, 0, FALSE)
                    /\ UNCHANGED calls
    /\ UNCHANGED <<codec, binding, disk, shared, shape, now, handles, pending>>

(* async_wrapper, from the await of line 88: the function has raised *)
AsyncRaise ==
    /\ pending.pc = "await"
    /\ LET p == pending
       IN  /\ \E dir \in Computed(p.key, Raised, fs, now) : fs' = WrittenBy(dir, p.key, p.h)
           /\ last' = Step("call", FALSE, p.h, p.key, None, -1, "raised", Raised, 0, FALSE)
    /\ pending' = Idle
    /\ UNCHANGED <<codec, binding, disk, shared, shape, now, handles, calls>>

(* The first next() of a generator object: lines 98 to 105, and the *)
(* producer raises before its first item.                           *)
GeneratorStartRaise ==
    /\ pending.pc = "start"
    /\ LET p == pending
           expiry == handles[p.h].expiry
       IN  \E key \in Keys(Cached, p.call.args, p.call.kwargs) :
           LET age == Age(fs, key, now)
               got == Get(key, fs, expiry, now)
           IN  /\ ~ IsError(got.value)
               /\ Miss(got.value)
               /\ calls < MaxCalls
               /\ calls' = calls + 1
               /\ \E dir \in Computed(key, Raised, got.dir, now) :
                      fs' = WrittenBy(dir, key, p.h)
               /\ pending' = Idle
               /\ last' = Step("next", TRUE, p.h, key, expiry, age, "raised", Raised, 1, FALSE)
    /\ UNCHANGED <<codec, binding, disk, shared, shape, now, handles>>

(* A later next(): the producer raises in place of its next item *)
GeneratorRaise ==
    /\ pending.pc = "producer"
    /\ Len(pending.value) < Len(pending.items)
    /\ LET p == pending
       IN  /\ \E dir \in Computed(p.key, Raised, fs, now) : fs' = WrittenBy(dir, p.key, p.h)
           /\ last' = Step("next", FALSE, p.h, p.key, None, -1, "raised", Raised, 0, FALSE)
    /\ pending' = Idle
    /\ UNCHANGED <<codec, binding, disk, shared, shape, now, handles, calls>>

NextResults ==
    \/ \E h \in ResultHandles, expiry \in ExpiryValues : Decorator(h, expiry)
    \/ \E h \in ResultHandles, x \in ResultArguments : ResultWrapper(h, x)
    \/ \E h \in ResultHandles, x \in ResultArguments : AsyncWrapper(h, x)
    \/ AsyncResume
    \/ AsyncRaise
    \/ \E h \in ResultHandles, x \in ResultArguments : GeneratorWrapper(h, x)
    \/ GeneratorStart
    \/ GeneratorStartRaise
    \/ GeneratorNext
    \/ GeneratorRaise
    \/ Tick

SpecResults == Init /\ [][NextResults]_vars

(* C26: NOT_IN_CACHE is never what a wrapper returns or yields, and it  *)
(* is no value an entry can hold: when get returns a stored None,       *)
(* False, 0 or empty value the call is a hit, which gives the caller    *)
(* that value and neither invokes the function nor calls set.           *)
C26_SentinelIsNoValue ==
    [][/\ last'.op \in {"call", "await", "next"} =>
            IF last'.op = "next" /\ last'.outcome # "raised"
            THEN \A i \in DOMAIN last'.value : last'.value[i] # NOT_IN_CACHE
            ELSE last'.value # NOT_IN_CACHE
       /\ (Looks /\ Get(last'.key, fs, last'.expiry, now).value \in FalsyResults) =>
            /\ last'.invoked = 0
            /\ calls' = calls
            /\ ~ last'.stored
            /\ fs' = fs
            /\ last'.op = "call" =>
                   /\ last'.outcome = "returned"
                   /\ last'.value = Get(last'.key, fs, last'.expiry, now).value
            /\ last'.op = "next" => last'.outcome = "stopped"
      ]_vars

(* The None the function returned once has been returned from the cache. *)
C26_NoneFromCache ==
    /\ last.op = "call"
    /\ last.looked
    /\ last.outcome = "returned"
    /\ last.value = None
    /\ last.invoked = 0
    /\ calls = 1

(* The step ends a call of a wrapper in the exception of the function. *)
FunctionRaised ==
    /\ last'.op \in {"call", "next"}
    /\ last'.outcome = "raised"
    /\ last'.value = Raised

(* C29: an entry is written only when the function has returned, or the *)
(* producer is exhausted: when the function or the producer raises, the *)
(* exception reaches the caller, set is not called and the key has no   *)
(* entry afterwards, the entry get found expired and removed included.  *)
C29_NoEntryWithoutResult ==
    [][/\ FunctionRaised =>
            /\ ~ last'.stored
            /\ last'.key \notin DOMAIN fs'.files
            /\ \A key \in DOMAIN fs'.files :
                   key \in DOMAIN fs.files /\ fs'.files[key] = fs.files[key]
       /\ \A key \in DOMAIN fs'.files :
              (key \notin DOMAIN fs.files \/ fs'.files[key] # fs.files[key]) =>
                  /\ last'.op \in {"call", "next"}
                  /\ last'.stored
                  /\ last'.outcome \in {"returned", "stopped"}
      ]_vars

(* The function has raised in a call that came upon an expired entry: *)
(* the key has no entry.                                              *)
C29_RaisedAfterEviction ==
    /\ last.op = "call"
    /\ last.looked
    /\ last.outcome = "raised"
    /\ last.value = Raised
    /\ last.age > 1
    /\ last.key \notin DOMAIN fs.files

----------------------------------------------------------------------------
(* Entries removed between the unlocked look at the directory and the *)
(* locked section                                                     *)

(* C27: however a get interleaves with other gets, flush, clear and     *)
(* delete, a get whose entry is absent, or has been removed by the time *)
(* it is read, returns NOT_IN_CACHE: it never fails because the file    *)
(* went away between the test of line 30 and the locked section.        *)
C27_GetOfRemovedIsMiss ==
    [][(last'.op \in {"exists", "get"} /\ last'.key \notin DOMAIN fs.files) =>
           last'.outcome = "miss"
      ]_vars

(* The same, of the test of line 30 only. *)
C27_AbsentAtTestIsMiss ==
    [][(last'.op = "exists" /\ last'.key \notin DOMAIN fs.files) => last'.outcome = "miss"
      ]_vars

(* Callers of the function and of flush *)
NextFlushers ==
    \/ NextCallers
    \/ \E t \in Threads, expiry \in ThreadExpiries : ThreadFlush(t, expiry)
    \/ \E t \in Threads : ThreadFlushLock(t)
    \/ \E t \in Threads : ThreadFlushLocked(t)

SpecFlushers == InitThreads /\ [][NextFlushers]_vars

(* C28: however a flush interleaves with gets and other flushes, it     *)
(* ends without an error: an entry that was listed and has been removed *)
(* before flush locks and examines it is skipped.                       *)
C28_FlushSkipsRemoved ==
    [][(last'.op = "flush" /\ last'.key \notin DOMAIN fs.files) =>
           last'.outcome \in {"flushing", "returned"}
      ]_vars

(* A flush in seconds ends without an error at an entry that is still *)
(* there when it is locked.                                           *)
C28_FlushOfPresentInSeconds ==
    [][(/\ last'.op = "flush"
        /\ last'.key \in DOMAIN fs.files
        /\ Is(threads[last'.t].expiry, "int")) =>
           last'.outcome \in {"flushing", "returned"}
      ]_vars

----------------------------------------------------------------------------
(* Callers of a wrapper of any of the three kinds on two keys, and of   *)
(* flush: between get and set the sync wrapper runs the function, the   *)
(* async wrapper awaits it, and the generator wrapper gives its caller  *)
(* the items of the producer one by one.                                *)

InitHolders ==
    /\ codec = Idle
    /\ binding = Idle
    /\ shape \in Shapes
    /\ now = 0
    /\ fs = [exists |-> TRUE, files |-> <<>>]
    /\ handles = <<>>
    /\ pending = Idle
    /\ calls = 0
    /\ last = [op |-> "none"]
    /\ threads = [t \in Threads |-> Idle]
    /\ locks = <<>>
    /\ puts = [completed |-> {}, raised |-> {}, last |-> <<>>]
    /\ disk = <<>>

(* The items appended so far (line 108) *)
Forwarded(t) == IF "items" \in DOMAIN threads[t] THEN threads[t].items ELSE <<>>

(* generator_wrapper, lines 107 to 110: the producer's next item is *)
(* appended and yielded                                            *)
ThreadForward(t) ==
    /\ shape = "generator"
    /\ threads[t].pc = "compute"
    /\ LET p == threads[t]
           n == Len(Forwarded(t))
       IN  /\ n < Len(Items(p.x))
           /\ IF n = 0 THEN calls < MaxCalls /\ calls' = calls + 1 ELSE UNCHANGED calls
           /\ threads' = [threads EXCEPT ![t] =
                  [pc |-> "compute", x |-> p.x, key |-> p.key, expiry |-> p.expiry,
                   items |-> Appended(Forwarded(t), Items(p.x)[n + 1])]]
           /\ last' = Returns(t, "yield", p.key, "yielded", Items(p.x)[n + 1])
    /\ UNCHANGED <<codec, binding, disk, shape, now, fs, handles, pending, locks, puts>>

(* generator_wrapper, line 107: the producer is exhausted *)
ThreadExhausted(t) ==
    /\ shape = "generator"
    /\ threads[t].pc = "compute"
    /\ LET p == threads[t]
       IN  /\ Len(Forwarded(t)) = Len(Items(p.x))
           /\ threads' = [threads EXCEPT ![t] =
                  [pc |-> "set_lock", x |-> p.x, key |-> p.key, value |-> List(Forwarded(t))]]
           /\ last' = Returns(t, "compute", p.key, "returned", List(Forwarded(t)))
    /\ UNCHANGED <<codec, binding, disk, shape, now, fs, handles, pending, calls, locks, puts>>

NextHolders ==
    \/ \E t \in Threads, x \in CachedArguments : ThreadCall(t, x, None)
    \/ \E t \in Threads : ThreadGetLock(t)
    \/ \E t \in Threads : ThreadGetLocked(t)
    \/ \E t \in Threads : shape # "generator" /\ ThreadCompute(t)
    \/ \E t \in Threads : ThreadForward(t)
    \/ \E t \in Threads : ThreadExhausted(t)
    \/ \E t \in Threads : ThreadSetLock(t)
    \/ \E t \in Threads : ThreadSetOpen(t)
    \/ \E t \in Threads : ThreadSetWrite(t)
    \/ \E t \in Threads, expiry \in KeyExpiries : ThreadFlush(t, expiry)
    \/ \E t \in Threads : ThreadFlushLock(t)
    \/ \E t \in Threads : ThreadFlushLocked(t)

SpecHolders == InitHolders /\ [][NextHolders]_vars

(* The locks a caller holds *)
Holds(t) == {key \in DOMAIN locks : locks[key] = t}

(* C30: a caller holds the lock of at most one entry at a time, and of  *)
(* none while the function runs or is awaited or between the items of a *)
(* producer: get has released its lock when the wrapper computes, and   *)
(* set takes its lock once the result is there.                         *)
C30_OneLockNoneWhileComputing ==
    \A t \in Threads :
        /\ Cardinality(Holds(t)) <= 1
        /\ threads[t].pc \in {"idle", "compute", "get_lock", "set_lock", "flush_lock"} =>
               Holds(t) = {}
        /\ Holds(t) # {} => \A key \in Holds(t) : InLockedSection(t, key)
        /\ threads[t].pc \in {"set_locked", "set_opened"} => "value" \in DOMAIN threads[t]

(* A caller is between the two items of a producer while another holds *)
(* the lock of an entry in a flush.                                    *)
C30_BetweenItems ==
    \E t, u \in Threads :
        /\ threads[t].pc = "compute"
        /\ Len(Forwarded(t)) = 1
        /\ Len(Items(threads[t].x)) = 2
        /\ threads[u].pc = "flush_locked"
        /\ Holds(u) # {}

----------------------------------------------------------------------------
(* Callers of the function and of flush that are scheduled fairly: a     *)
(* caller inside a call or a flush goes on, and one that waits for a     *)
(* lock that is free again and again gets it (FileLock has no timeout:   *)
(* acquire polls until the lock is free). A call is begun only while the *)
(* invocations it and the calls under way may need are within MaxCalls.  *)

LiveExpiries == {PyInt(0)}

MayCompute == {t \in Threads : threads[t].pc \in {"get_lock", "get_locked", "compute"}}

LiveCall(t, x, expiry) ==
    /\ calls + Cardinality(MayCompute) < MaxCalls
    /\ ThreadCall(t, x, expiry)

Continue(t) ==
    \/ ThreadGetLocked(t)
    \/ ThreadCompute(t)
    \/ ThreadSetOpen(t)
    \/ ThreadSetWrite(t)
    \/ ThreadFlushLocked(t)

NextLive ==
    \/ \E t \in Threads, x \in SharedArguments, expiry \in LiveExpiries : LiveCall(t, x, expiry)
    \/ \E t \in Threads : ThreadGetLock(t)
    \/ \E t \in Threads : ThreadGetLocked(t)
    \/ \E t \in Threads : ThreadCompute(t)
    \/ \E t \in Threads : ThreadSetLock(t)
    \/ \E t \in Threads : ThreadSetOpen(t)
    \/ \E t \in Threads : ThreadSetWrite(t)
    \/ \E t \in Threads, expiry \in KeyExpiries : ThreadFlush(t, expiry)
    \/ \E t \in Threads : ThreadFlushLock(t)
    \/ \E t \in Threads : ThreadFlushLocked(t)
    \/ Tick

SpecLive ==
    /\ InitThreads
    /\ [][NextLive]_vars
    /\ \A t \in Threads : WF_vars(Continue(t)) /\ SF_vars(AcquireStep(t))

(* C31: no acquisition of a lock ends in a timeout, and with fair        *)
(* scheduling and a function that returns every caller that holds a     *)
(* lock releases it and every call of the wrapper and every flush that  *)
(* has begun ends: concurrent callers do not deadlock.                  *)
C31_EveryCallEnds ==
    \A t \in Threads :
        /\ (Holds(t) # {}) ~> (Holds(t) = {})
        /\ (threads[t] # Idle) ~> (threads[t] = Idle)

(* A caller waits for the lock of the entry while another writes it. *)
C31_WaitingForLock ==
    \E t, u \in Threads :
        /\ threads[t].pc = "get_lock"
        /\ WaitsForLock(t)
        /\ threads[u].pc = "set_opened"

----------------------------------------------------------------------------
(* Two callers of one wrapped function on two keys, one of which also  *)
(* calls flush and clear. The directory is empty at first or holds an  *)
(* entry an earlier run wrote, now older than the expiry.              *)

Stale ==
    LET key == CHOOSE k \in Keys(Cached, <<PyInt(1)>>, <<>>) : TRUE
        wire == CHOOSE w \in Serialize(Result(PyInt(1), 0)) : TRUE
    IN  [exists |-> TRUE, files |-> (key :> [content |-> wire, mtime |-> -1, ino |-> 0])]

InitReturns ==
    /\ codec = Idle
    /\ binding = Idle
    /\ shape = "sync"
    /\ now = 0
    /\ fs \in {[exists |-> TRUE, files |-> <<>>], Stale}
    /\ handles = <<>>
    /\ pending = Idle
    /\ calls = 0
    /\ last = [op |-> "none"]
    /\ threads = [t \in Threads |-> Idle]
    /\ locks = <<>>
    /\ puts = [completed |-> {}, raised |-> {}, last |-> <<>>]
    /\ disk = <<>>

Maintainer == "t2"

NextReturns ==
    \/ \E t \in Threads, x \in CachedArguments, expiry \in KeyExpiries : ThreadCall(t, x, expiry)
    \/ \E t \in Threads : ThreadGetLock(t)
    \/ \E t \in Threads : ThreadGetLocked(t)
    \/ \E t \in Threads : ThreadCompute(t)
    \/ \E t \in Threads : ThreadSetLock(t)
    \/ \E t \in Threads : ThreadSetOpen(t)
    \/ \E t \in Threads : ThreadSetWrite(t)
    \/ \E expiry \in KeyExpiries : ThreadFlush(Maintainer, expiry)
    \/ \E t \in Threads : ThreadFlushLock(t)
    \/ \E t \in Threads : ThreadFlushLocked(t)
    \/ ThreadClear(Maintainer)
    \/ \E t \in Threads : ThreadMakedirs(t)

SpecReturns == InitReturns /\ [][NextReturns]_vars

(* The step is one in which a call of the wrapper returns: get has given *)
(* it the stored value, or set has written the value of the function.    *)
CallReturns == last'.op \in {"get", "write"} /\ last'.outcome = "returned"

(* C32: however calls of the wrapper, clears, flushes and expiries       *)
(* interleave, what a call returns for a key is what some invocation of  *)
(* the function returned for arguments that have that key: no call is    *)
(* given a value stored under another key.                               *)
C32_ReturnsOwnResults ==
    [][CallReturns =>
           \E x \in CachedArguments : \E n \in 1..calls' :
               /\ last'.value = Result(x, n)
               /\ last'.key \in Keys(Cached, <<x>>, <<>>)
      ]_vars

(* A call for 2 has been given the stored value while 1 has an entry. *)
C32_HitBesideOtherEntry ==
    /\ last.op = "get"
    /\ last.outcome = "returned"
    /\ last.key \in Keys(Cached, <<PyInt(2)>>, <<>>)
    /\ \E key \in Keys(Cached, <<PyInt(1)>>, <<>>) : key \in DOMAIN fs.files

----------------------------------------------------------------------------
(* What a hit leaves behind *)

(* The step is a lookup that came upon a stored value and gave it, or *)
(* its first item, to the caller.                                    *)
Hits ==
    /\ Looks
    /\ last'.invoked = 0
    /\ last'.outcome \in {"returned", "yielded", "stopped"}

(* C33: a get that hits changes no entry: the content and the time of   *)
(* modification of the entry it read are what they were, so the age of  *)
(* an entry is counted from its last write however often it is read.    *)
C33_HitLeavesEntry == [][Hits => fs'.files = fs.files]_vars

(* An entry written at 0 has been read at 2 and is still of time 0. *)
C33_ReadTwoSecondsOld ==
    /\ last.op = "call"
    /\ last.looked
    /\ last.invoked = 0
    /\ last.outcome = "returned"
    /\ last.age = 2
    /\ now = 2
    /\ last.key \in DOMAIN fs.files
    /\ fs.files[last.key].mtime = 0

(***************************************************************************)
(* The comparison of the expiry: one wrapper whose expiry is zero seconds, *)
(* one second or a timedelta of one second, its calls, its flushes and the *)
(* clock.                                                                  *)
(***************************************************************************)
StrictHandle == "h1"

StrictExpiries == {PyInt(0), PyInt(1), Timedelta(1)}

NextStrict ==
    \/ \E expiry \in StrictExpiries : Decorator(StrictHandle, expiry)
    \/ \E x \in CachedArguments : SyncWrapper(StrictHandle, x)
    \/ FlushCache(StrictHandle)
    \/ \E value \in StrictExpiries : SetExpiry(StrictHandle, value)
    \/ Tick

SpecStrict == InitSync /\ [][NextStrict]_vars

(* The lookup serves the entry of its key as it is. *)
Serves(key) ==
    /\ last'.outcome = "returned"
    /\ last'.invoked = 0
    /\ last'.value = Deserialize(fs.files[key].content)
    /\ Entry(fs', key) = fs.files[key]

(* What lookups and flushes do with an entry of a given age, for the     *)
(* expiries of the set: served and retained up to the expiry, the expiry *)
(* included, recomputed and removed beyond it.                           *)
StrictOver(expiries) ==
    /\ (Looks /\ last'.expiry \in expiries /\ last'.key \in DOMAIN fs.files) =>
           IF last'.age <= Seconds(last'.expiry)
           THEN Serves(last'.key)
           ELSE last'.outcome = "returned" /\ last'.invoked = 1
    /\ (last'.op = "flush" /\ last'.expiry \in expiries) =>
           \A key \in DOMAIN fs.files :
               IF now - fs.files[key].mtime <= Seconds(last'.expiry)
               THEN Entry(fs', key) = fs.files[key]
               ELSE key \notin DOMAIN fs'.files

(* C34: the expiry is compared strictly, in get and in flush alike: an   *)
(* entry is expired if and only if its modification time plus the expiry *)
(* is less than the time of the call. An entry whose age is the expiry   *)
(* exactly is still served by get and retained by flush, and with an     *)
(* expiry of zero every entry of positive age is expired.                *)
C34_StrictComparison == [][StrictOver(StrictExpiries)]_vars

(* C34 again, for an expiry that is a number of seconds *)
C34_StrictComparisonInSeconds == [][StrictOver({PyInt(0), PyInt(1)})]_vars

(***************************************************************************)
(* The use of a wrapper after delete_cache: one wrapper that has been      *)
(* constructed and whose directory delete_cache has removed, then its      *)
(* calls, further delete_cache and the clock.                              *)
(***************************************************************************)
InitDeleted ==
    /\ codec = Idle
    /\ binding = Idle
    /\ shape = "sync"
    /\ now = 0
    /\ fs = NoDirectory
    /\ \E expiry \in ExpiryValues :
           handles = [h \in Handles |-> IF h = StrictHandle
                                        THEN [expiry |-> expiry, constructed |-> TRUE]
                                        ELSE NoHandle]
    /\ pending = Idle
    /\ calls = 0
    /\ last = [op |-> "delete", h |-> StrictHandle]
    /\ Sequential

NextDeleted ==
    \/ \E x \in CachedArguments : SyncWrapper(StrictHandle, x)
    \/ DeleteCache(StrictHandle)
    \/ Tick

SpecDeleted == InitDeleted /\ [][NextDeleted]_vars

(* What the calls of the wrappers whose expiry is in the set do on a     *)
(* directory that delete_cache has removed, and right after such a call. *)
RecreatedOver(expiries) ==
    (Looks /\ last'.expiry \in expiries) =>
        /\ ~ fs.exists =>
               /\ last'.outcome = "returned"
               /\ last'.invoked = 1
               /\ last'.stored
               /\ fs'.exists
               /\ DOMAIN fs'.files = {last'.key}
               /\ fs'.files[last'.key].content \in Serialize(last'.value)
        /\ (last.op = "call" /\ last.stored /\ last.key = last'.key) =>
               /\ last'.outcome = "returned"
               /\ last'.invoked = 0
               /\ last'.value = last.value
               /\ fs' = fs

(* C35: the directory is made again on use: after delete_cache a call    *)
(* through the same wrapper succeeds: it invokes the function, the       *)
(* directory is there again with the entry of the call stored in it, and *)
(* the identical call that follows is a hit.                             *)
C35_RecreatedOnUse == [][RecreatedOver(ExpiryValues)]_vars

(* C35 again, for the wrappers whose expiry is None or a number of seconds *)
C35_RecreatedOnUseInSeconds == [][RecreatedOver({None, PyInt(1)})]_vars

(***************************************************************************)
(* A wrapper whose expiry is left unset: its construction, its calls, its  *)
(* flush_cache and delete_cache, and the clock.                            *)
(***************************************************************************)
NextUnset ==
    \/ Decorator(StrictHandle, None)
    \/ \E x \in CachedArguments : SyncWrapper(StrictHandle, x)
    \/ FlushCache(StrictHandle)
    \/ DeleteCache(StrictHandle)
    \/ Tick

SpecUnset == InitSync /\ [][NextUnset]_vars

(* C36: flush_cache through a wrapper whose expiry is None removes no    *)
(* entry: on a directory without entries it does nothing and returns, on *)
(* a directory with entries it raises on the first entry it examines and *)
(* all the entries stay as they are.                                     *)
C36_FlushWithoutExpiry ==
    [][(last'.op = "flush" /\ last'.expiry = None) =>
        /\ fs'.files = fs.files
        /\ (fs.exists /\ DOMAIN fs.files = {}) =>
               last'.outcome = "returned" /\ fs' = fs
        /\ DOMAIN fs.files # {} =>
               last'.outcome = "raised" /\ last'.value = Error("TypeError")
      ]_vars

(* flush_cache without expiry has raised on a directory of two entries. *)
C36_RaisedOnEntries ==
    /\ last.op = "flush"
    /\ last.expiry = None
    /\ last.outcome = "raised"
    /\ last.entries = 2
    /\ Cardinality(DOMAIN fs.files) = 2

(***************************************************************************)
(* Two calls of one cached callable that bind different arguments: the     *)
(* first call, then a call of other logical arguments.                     *)
(***************************************************************************)

(* What the logical arguments bind: a value to each declared parameter   *)
(* (its default when it is left out), the variadic tail and the extra    *)
(* keywords.                                                             *)
Bound(parameters, logical) ==
    [given |-> [i \in Named(parameters) |->
                    IF logical.given[i] = Empty THEN parameters[i].default
                    ELSE logical.given[i]],
     tail |-> logical.tail,
     extra |-> Range(logical.extra)]

ArgsOtherCall ==
    /\ binding.pc = "first"
    /\ \E logical \in LogicalArguments(binding.func.parameters) :
           /\ Bound(binding.func.parameters, logical)
                  # Bound(binding.func.parameters, binding.logical)
           /\ \E call \in Calls(binding.func.parameters, logical) :
              \E c \in Canonicalized(binding.func, call) :
                  binding' = [binding EXCEPT !.pc = "done", !.second = c]
    /\ UNCHANGED <<codec, engine>>

DistinctNext == ArgsFirstCall \/ ArgsOtherCall

SpecDistinct == ArgsInit /\ [][DistinctNext]_vars

(* The items of a mapping: two mappings are equal when they have the *)
(* same items, whatever the order.                                   *)
ItemsOf(arguments) == Range(arguments.dict)

(* C37: no argument of the caller is lost in the canonical arguments:    *)
(* two calls that bind a different value to a declared parameter, to the *)
(* variadic tail or to an extra keyword have different canonical         *)
(* arguments, for plain functions and bound methods alike.               *)
C37_NoArgumentLost ==
    binding.pc = "done" =>
        ItemsOf(binding.first.arguments) # ItemsOf(binding.second.arguments)

(* C37 again, for the callables that are plain functions *)
C37_NoArgumentLostOfFunctions ==
    (binding.pc = "done" /\ ~ binding.func.is_method) =>
        ItemsOf(binding.first.arguments) # ItemsOf(binding.second.arguments)

(***************************************************************************)
(* The binding of the positional arguments of a function that declares a   *)
(* variadic tail.                                                          *)
(***************************************************************************)

(* The place of the variadic-positional parameter among the parameters *)
VariadicAt(parameters) ==
    CHOOSE p \in DOMAIN parameters : parameters[p].kind = "VAR_POSITIONAL"

(* The value the mapping has for a name (a missing name: Empty) *)
ValueAt(items, name) ==
    IF \E n \in DOMAIN items : items[n][1] = name
    THEN items[CHOOSE n \in DOMAIN items : items[n][1] = name][2]
    ELSE Empty

(* The call binds its positional arguments around the variadic tail. *)
TailBound(parameters, call) ==
    LET p == VariadicAt(parameters)
        bound == call.arguments.dict
    IN  /\ \A n \in 1..Min(p - 1, Len(call.args)) :
               ValueAt(bound, parameters[n].name) = call.args[n]
        /\ ValueAt(bound, parameters[p].name) = Tuple(SubSeq(call.args, p, Len(call.args)))
        /\ Len(call.args) < p => ValueAt(bound, parameters[p].name) = Tuple(<<>>)
        /\ \A n \in DOMAIN parameters :
               (n > p /\ parameters[n].kind # "VAR_KEYWORD") =>
                   ValueAt(bound, parameters[n].name) =
                       IF ValueAt(call.kwargs, parameters[n].name) # Empty
                       THEN ValueAt(call.kwargs, parameters[n].name)
                       ELSE IF parameters[n].default # Empty THEN parameters[n].default
                       ELSE None

SharedOver(expiries) ==
    (Looks /\ last'.expiry \in expiries /\ last'.key \in DOMAIN fs.files) =>
        LET entry == fs.files[last'.key]
        IN  entry.by # last'.h =>
                IF Exceeds(now - entry.mtime, last'.expiry)
                THEN /\ last'.outcome = "returned"
                     /\ last'.invoked = 1
                     /\ fs'.files[last'.key].by = last'.h
                     /\ fs'.files[last'.key].content \in Serialize(last'.value)
                ELSE /\ last'.outcome = "returned"
                     /\ last'.invoked = 0
                     /\ last'.value = Deserialize(entry.content)
                     /\ fs'.files = fs.files

(* C39: the key depends on the canonical arguments only, not on the      *)
(* callable: two wrappers on one directory read and overwrite each       *)
(* other's entries, and a call through one is a hit on the entry the     *)
(* other has stored for equal canonical arguments.                       *)
C39_SharedDirectory == [][SharedOver(ExpiryValues)]_vars

(* C39 again, for the wrappers whose expiry is None or a number of seconds *)
C39_SharedDirectoryInSeconds == [][SharedOver({None, PyInt(1)})]_vars

====
